---- MODULE Spec2Model ----
(***************************************************************************)
(* Broadcast distribution engine of reklamabot: PostingService             *)
(* (backend/src/posts/posting.service.ts) together with the session        *)
(* client map of TelegramService (backend/src/telegram/telegram.service.ts)*)
(*                                                                         *)
(* One action is the code that runs between two awaits of the Node.js      *)
(* event loop: handlers are atomic up to their next suspension point.      *)
(* Time is discrete.  Every duration of the source is given in ticks; the  *)
(* tick values keep the order of the source's durations                    *)
(*   2 s < 5 s < 20 s < 22 s < 30 s < 60 s < 90 s < 5 min < 10 min         *)
(*       < 12 min < 15 min < 18 min < 30 min < 999 h.                      *)
(* A timestamp is stored as its distance to now: a deadline as the ticks   *)
(* that remain (0 = reached), a past instant as its age.                   *)
(***************************************************************************)
EXTENDS Integers, Sequences, FiniteSets, TLC

\* ---------------------------------------------------------------- universe
SessionIds == {"s1", "s2"}
GroupIds == {"g1", "g2", "g3", "g4"}
JobIds == {"j1", "j2"}
\* the tenant whose sessions, groups and jobs these are
UserId == "u1"
\* the ad ids a request may name; a0 is the id of no ad
AdIds == {"a0", "a1", "a2", "a3"}
\* prisma Ad rows: a1 is the tenant's, a2 is another tenant's, a3 is the tenant's
\* and its content is empty
Ads == [a \in {"a1", "a2", "a3"} |->
          [userId |-> IF a = "a2" THEN "u2" ELSE UserId,
           content |-> IF a = "a3" THEN "" ELSE "text"]]
\* job ids carry their creation time: the jobs created before job j
Earlier(j) == IF j = "j2" THEN {"j1"} ELSE {}
\* prisma Group.sessionId: the session that joined each group
GroupSession == [g \in GroupIds |-> IF g = "g4" THEN "s2" ELSE "s1"]

NONE == -1

\* what client.sendMessage can come back with, as postToGroup tells them apart
SendOutcomes == {"ok", "flood", "slowmode", "forbidden", "dead", "restricted", "transient"}

\* ---------------------------------------------------------------- bounds
MaxRounds == 2
MaxTenantOps == 1
MaxFaults == 2
MaxSendTicks == 1
MaxScans == 2
MaxBatch == 2
MaxResumes == 1

\* ------------------------------------------------- anti-spam settings (ticks)
POLL_TICKS == 1
LOOP_PAUSE_TICKS == 2
MIN_GROUP_DELAY_MS == 2
MAX_GROUP_DELAY_MS == 3
LONG_PAUSE_MIN_MS == 5
FLOOD_INLINE_MAX == 6
LONG_PAUSE_MAX_MS == 7
SESSION_COOLDOWN_MS == 8
ERROR_COOLDOWN_MS == 8
GROUP_COOLDOWN_MS == 9
ROUND_PAUSE_MS == 11
ROUND_JITTER_MS == 1
FLOOD_FREEZE_MS == 13
DEAD_COOLDOWN_MS == 100
\* counts, scaled so that the bounded runs reach them
SESSION_MESSAGE_LIMIT == 3
MAX_FLOOD_PER_SESSION == 3
MAX_CONSECUTIVE_ERRORS == 3
LONG_PAUSE_INTERVAL == 2
LOG_TRIM_ABOVE == 6
LOG_KEEP == 4

\* waits a flood signal may report: inline ones and one above the inline limit
FloodWaits == {FLOOD_INLINE_MAX, FLOOD_INLINE_MAX + 1}

\* ---------------------------------------------------------------- helpers
Range(f) == {f[x] : x \in DOMAIN f}
Min2(a, b) == IF a < b THEN a ELSE b
\* handleFrozenSessions passes cleanupFrozenSessions(7)
OLDER_THAN_DAYS == 7

Dec(n) == IF n > 0 THEN n - 1 ELSE n
Age(a, cap) == IF a = NONE THEN NONE ELSE Min2(a + 1, cap)
Last(seq, n) == IF Len(seq) <= n THEN seq ELSE SubSeq(seq, Len(seq) - n + 1, Len(seq))

RECURSIVE SetToSeq(_)
SetToSeq(S) ==
  IF S = {} THEN <<>>
  ELSE LET x == CHOOSE y \in S : TRUE IN <<x>> \o SetToSeq(S \ {x})

\* a draw that rounds instead of flooring: max + 1 can come out
getRandomDelayRounded(min, max) ==
  LET w == max - min + 1 IN {n + min : n \in 0..w}

\* Math.floor(Math.random() * (max - min + 1)) + min, with random() drawn from
\* the fractions n / (max - min + 1) of [0, 1)
getRandomDelay(min, max) ==
  LET w == max - min + 1 IN {((n * w) \div w) + min : n \in 0..(w - 1)}

\* Fisher-Yates: every permutation of the array can come out
shuffleArray(array) ==
  LET n == Len(array) IN
  {[i \in 1..n |-> array[p[i]]] :
     p \in {q \in [1..n -> 1..n] : \A a, b \in 1..n : a # b => q[a] # q[b]}}

VARIABLES
  sessions,       \* prisma Session rows: status, isFrozen, frozenAt (days ago, or
                  \* NONE for null), sessionString present
  groupRows,      \* prisma Group rows: isActive, isSkipped, hasRestrictions,
                  \* restrictionUntil, skipReason, lastPostAt
  clients,        \* TelegramService.clients: sessions with a connected client
  sessionStates,  \* PostingService.sessionStates: the SessionFloodState of each session
  activeJobs,     \* PostingService.activeJobs: the registered job ids
  job,            \* the PostingJob objects
  jobGroups,      \* the GroupInfo array handed to runPostingLoop (lastPostAt per group)
  loop,           \* position of each job's runPostingLoop
  tasks,          \* the postSessionGroups calls of each job, by <<round, key>>
  opsLeft,        \* tenant session operations still to come
  faultsLeft,     \* failures the platform may still answer with
  cfg,            \* the run's setting: the platform's answers, clock or none, one round or
                  \* more, the jobs the tenant starts, the ads it asks for
  startResult,    \* what the last start-posting request came back with
  sinceStop,      \* ticks since stopJob set the flag (NONE before)
  stoppedAtZero,  \* stopJob set the flag while postedGroups was still 0
  adRows,         \* prisma Ad rows of the ads that carry a schedule
  postRows,       \* prisma Post rows, in the order they were created
  scan,           \* SchedulerService.handleScheduledAds: the scan in progress
  distribution,   \* PostsService.distributeContent: the call running for each Post
  payments,       \* prisma Payment rows
  reviews,        \* approve and reject calls between their findUnique and update
  groupTable,     \* prisma Group rows by (sessionId, telegramId), Session.totalGroups
  lastBatch       \* the last batchAddGroups call

schedVars == <<adRows, postRows, scan, distribution>>
payVars == <<payments, reviews>>
syncVars == <<groupTable, lastBatch>>
engineVars == <<sessions, groupRows, clients, sessionStates, activeJobs, job, jobGroups,
                loop, tasks, opsLeft, faultsLeft, cfg, startResult, sinceStop,
                stoppedAtZero>>

vars == <<engineVars, schedVars, payVars, syncVars>>

\* no scheduled ad, no Post, no scan
QuietSched ==
  /\ adRows = <<>>
  /\ postRows = <<>>
  /\ scan = [pc |-> "idle", ads |-> <<>>, i |-> 0, runs |-> 0, error |-> ""]
  /\ distribution = <<>>

\* no payment
QuietPay ==
  /\ payments = <<>>
  /\ reviews = <<>>

\* no group synchronised
QuietSync ==
  /\ groupTable = [rows |-> <<>>, totalGroups |-> [s \in SessionIds |-> 0]]
  /\ lastBatch = [calls |-> 0, sessionId |-> "none", groups |-> <<>>]


\* a duration in ticks; a run without a clock only tells pending from run out
Ticks(d) == IF cfg.clock THEN d ELSE 1

\* no start-posting request yet
NoRequest == [calls |-> 0, adId |-> "none", error |-> "none"]

NoJob ==
  [adId |-> "none", status |-> "none", totalGroups |-> 0, postedGroups |-> 0, failedGroups |-> 0,
   skippedGroups |-> 0, roundsCompleted |-> 0, logs |-> <<>>,
   stopRequested |-> FALSE, pauseRequested |-> FALSE]

\* getSessionState creates the entry lazily with these values
\* (armedSinceSent is not a field of the source: it tells whether the session has
\* sent yet and, if so, whether a cooldown was armed since its last Sent)
getSessionState ==
  [floodCount |-> 0, lastFloodAt |-> NONE, messagesSent |-> 0, cooldownUntil |-> NONE,
   consecutiveErrors |-> 0, armedSinceSent |-> "noSent"]

\* state.cooldownUntil = new Date(Date.now() + d): the cooldown is armed
armCooldown(st, d) ==
  [st EXCEPT !.cooldownUntil = d,
             !.armedSinceSent = IF @ = "noSent" THEN @ ELSE "yes"]

\* what every run starts from: no job yet, no rate state, every usable session
\* connected by loadActiveSessions
StartEngine(usable, active, setting) ==
  /\ sessions = [s \in SessionIds |->
                   [status |-> IF s \in usable THEN "ACTIVE" ELSE "INACTIVE",
                    isFrozen |-> FALSE, frozenAt |-> NONE, sessionString |-> TRUE]]
  /\ groupRows = [g \in GroupIds |->
                   [isActive |-> g \in active, isSkipped |-> FALSE,
                    hasRestrictions |-> FALSE, restrictionUntil |-> NONE,
                    skipReason |-> "", lastPostAt |-> NONE]]
  /\ clients = usable
  /\ sessionStates = [s \in SessionIds |-> getSessionState]
  /\ activeJobs = {}
  /\ job = [j \in JobIds |-> NoJob]
  /\ jobGroups = [j \in JobIds |-> <<>>]
  /\ loop = [j \in JobIds |-> [pc |-> "none", timer |-> 0, pauseLeft |-> 0]]
  /\ tasks = [j \in JobIds |-> <<>>]
  /\ opsLeft = setting.ops
  /\ faultsLeft = setting.faults
  /\ cfg = [outcomes |-> setting.outcomes, clock |-> setting.clock,
            rounds |-> setting.rounds, jobs |-> setting.jobs, ads |-> setting.ads]
  /\ startResult = NoRequest
  /\ sinceStop = [j \in JobIds |-> NONE]
  /\ stoppedAtZero = [j \in JobIds |-> FALSE]

\* the posting engine on its own
Start(usable, active, setting) ==
  /\ StartEngine(usable, active, setting)
  /\ QuietSched
  /\ QuietPay
  /\ QuietSync

\* ------------------------------------------------------ session flood tracking
\* a check that never finds the session cooling down
neverCoolingDown(st) == FALSE

isSessionCoolingDown(st) == st.cooldownUntil # NONE /\ st.cooldownUntil > 0

\* a check that clears the cooldown that has run out and keeps the count
cooldownCleared(st) ==
  IF st.cooldownUntil = 0 THEN [st EXCEPT !.cooldownUntil = NONE] ELSE st

\* the reset isSessionCoolingDown performs when the cooldown has run out
cooldownElapsed(st) ==
  IF st.cooldownUntil = 0
  THEN [st EXCEPT !.cooldownUntil = NONE, !.messagesSent = 0]
  ELSE st

recordSuccess(st) ==
  LET a == [st EXCEPT !.messagesSent = @ + 1, !.consecutiveErrors = 0,
                      !.armedSinceSent = "no"] IN
  IF a.messagesSent >= SESSION_MESSAGE_LIMIT
  THEN [armCooldown(a, Ticks(SESSION_COOLDOWN_MS)) EXCEPT !.messagesSent = 0]
  ELSE a

\* floodCount is only ever compared with MAX_FLOOD_PER_SESSION: it saturates there
recordFlood(st) ==
  LET a == [st EXCEPT !.floodCount = Min2(@ + 1, MAX_FLOOD_PER_SESSION),
                      !.lastFloodAt = 0,
                      !.consecutiveErrors = @ + 1] IN
  IF a.floodCount >= MAX_FLOOD_PER_SESSION
  THEN armCooldown(a, Ticks(FLOOD_FREEZE_MS))
  ELSE a

recordError(st) ==
  LET a == [st EXCEPT !.consecutiveErrors = @ + 1] IN
  IF a.consecutiveErrors >= MAX_CONSECUTIVE_ERRORS
  THEN [armCooldown(a, Ticks(ERROR_COOLDOWN_MS)) EXCEPT !.consecutiveErrors = 0]
  ELSE a

\* a slow-mode answer that is counted as an error of the session
slowModeAsError(st) == recordError(st)

\* lines 571-600: the slow-mode branch calls none of recordSuccess, recordFlood and
\* recordError and does not write cooldownUntil
slowMode(st) == st

\* a dead session that is left without a cooldown
deadWithoutCooldown(st) == st

\* lines 631-632: the cooldown of 999 h that a dead session gets
sessionDead(st) == armCooldown(st, Ticks(DEAD_COOLDOWN_MS))

\* a check that finds every session connected
alwaysConnected(cl, s) == TRUE

isClientConnected(cl, s) == s \in cl

\* a check that finds no group on cooldown
neverOnCooldown(lastPostAt) == FALSE

isGroupOnCooldown(lastPostAt) == lastPostAt # NONE /\ lastPostAt < GROUP_COOLDOWN_MS

\* ------------------------------------------------------------ a session driver
\* A driver step works on a context c: the job object (jb), the sessionStates map
\* (ss), the job's GroupInfo objects (gi) and the driver's own frame (t); env holds
\* what the step only reads (the client map and the Session rows).
Log(g, status, reason) ==
  [timestamp |-> 0, sessionId |-> GroupSession[g], groupId |-> g, status |-> status,
   reason |-> reason]

\* timestamp: new Date(), of which the model keeps the round it falls in
Stamp(log, t) == [log EXCEPT !.timestamp = t.round]

\* no Send in flight
NoSend ==
  [status |-> "ACTIVE", isFrozen |-> FALSE, sessionString |-> TRUE,
   connected |-> TRUE, stop |-> FALSE, pause |-> FALSE, cooldown |-> NONE,
   gap |-> NONE, lastPostAt |-> NONE]

\* the frame of a postSessionGroups call: its locals, where it is suspended (pc,
\* timer), the conditions its Send in flight was issued under (at), and what has
\* happened to it (since: ticks since its last Send returned; floodFirst: a flood
\* wait above the inline limit answered its first group; waited: it sat in the
\* pause-wait loop, after that flood wait if there was one)
NewTask(key, round, groups) ==
  [key |-> key, round |-> round, groups |-> groups, i |-> 1, pc |-> "start",
   timer |-> 0, messageCount |-> 0, since |-> NONE,
   floodFirst |-> FALSE, waited |-> FALSE, at |-> NoSend]

\* the call has returned ("done") or thrown ("rejected"): its frame is gone
Returned(t, pc) == [NewTask(t.key, t.round, <<>>) EXCEPT !.pc = pc]

Live(t) == t.pc \notin {"done", "rejected"}

\* a driver that never looks at the stop flag
stopNeverChecked(jb) == FALSE

\* line 396 and 403: the driver leaves its loop when stop is requested
stopCheck(jb) == jb.stopRequested

\* a pause-wait that only ends on resume
pausedOnly(jb) == jb.pauseRequested

\* line 400: the condition of the pause-wait loop
pauseWaitCond(jb) == jb.pauseRequested /\ ~jb.stopRequested

\* a driver that never sleeps between two groups
noDelay(t, jb) == FALSE

\* line 458: an inter-group delay follows unless this was the last group or stop is set
delayNeeded(t, jb) == t.i < Len(t.groups) /\ ~jb.stopRequested

\* line 460: the long pause falls on every LONG_PAUSE_INTERVAL-th message
longPauseDue(t) == t.messageCount > 0 /\ t.messageCount % LONG_PAUSE_INTERVAL = 0

\* telegramService.sendMessage reaches client.sendMessage: the Send is in flight
issueSend(c, env, connected) ==
  LET g == c.t.groups[c.t.i]
      s == GroupSession[g] IN
  [c EXCEPT !.t.pc = "sending", !.t.timer = Ticks(MaxSendTicks),
            !.t.at = [status |-> env.sess[s].status,
                      isFrozen |-> env.sess[s].isFrozen,
                      sessionString |-> env.sess[s].sessionString,
                      connected |-> connected,
                      stop |-> c.jb.stopRequested,
                      pause |-> c.jb.pauseRequested,
                      cooldown |-> c.ss[s].cooldownUntil,
                      gap |-> c.t.since,
                      lastPostAt |-> c.gi[g]]]

\* postToGroup up to its first await (lines 487-514)
postToGroup(c, env) ==
  LET s == GroupSession[c.t.groups[c.t.i]] IN
  IF isClientConnected(env.cl, s)
  THEN issueSend(c, env, TRUE)
  ELSE [c EXCEPT !.t.pc = "connecting", !.t.timer = Ticks(MaxSendTicks)]

\* a skip that is logged but not counted
skipUncounted(c, reason) ==
  [c EXCEPT !.jb.logs = Append(@, Stamp(Log(c.t.groups[c.t.i], "skipped", reason), c.t)),
            !.t.i = @ + 1]

\* lines 409-436: a cooldown skip counts the turn, logs it and goes on
skipGroup(c, reason) ==
  [c EXCEPT !.jb.skippedGroups = @ + 1,
            !.jb.logs = Append(@, Stamp(Log(c.t.groups[c.t.i], "skipped", reason), c.t)),
            !.t.i = @ + 1]

RECURSIVE postSessionGroups(_, _)
\* one group's turn from line 406 to the driver's next await
groupTurn(c, env) ==
  LET g == c.t.groups[c.t.i]
      s == GroupSession[g] IN
  IF isGroupOnCooldown(c.gi[g])
  THEN postSessionGroups(skipGroup(c, "Cooldown"), env)
  ELSE IF isSessionCoolingDown(c.ss[s])
  THEN postSessionGroups(skipGroup(c, "Session cooldown"), env)
  ELSE postToGroup([c EXCEPT !.ss[s] = cooldownElapsed(@)], env)

\* the for loop of postSessionGroups from the top of an iteration (line 395)
postSessionGroups(c, env) ==
  IF c.t.i > Len(c.t.groups) \/ stopCheck(c.jb)
  THEN [c EXCEPT !.t = Returned(@, "done")]
  ELSE IF c.jb.pauseRequested /\ pauseWaitCond(c.jb)
  THEN [c EXCEPT !.t.pc = "pauseWait", !.t.timer = Ticks(POLL_TICKS), !.t.waited = TRUE]
  ELSE IF c.jb.pauseRequested /\ stopCheck(c.jb)
  THEN [c EXCEPT !.t = Returned(@, "done")]
  ELSE groupTurn(c, env)

\* the pause-wait loop after its delay(2000) (lines 400-404)
pauseWaitWake(c, env) ==
  IF pauseWaitCond(c.jb)
  THEN [c EXCEPT !.t.pc = "pauseWait", !.t.timer = Ticks(POLL_TICKS)]
  ELSE IF stopCheck(c.jb)
  THEN [c EXCEPT !.t = Returned(@, "done")]
  ELSE groupTurn(c, env)

\* lines 440-472: count the result, log it, trim the log, then delay or go on
afterPost(c, env, success, log, d, lp) ==
  LET g == c.t.groups[c.t.i]
      s == GroupSession[g]
      a == IF success
           THEN [c EXCEPT !.jb.postedGroups = @ + 1, !.t.messageCount = @ + 1,
                          !.ss[s] = recordSuccess(@), !.gi[g] = 0]
           ELSE [c EXCEPT !.jb.failedGroups = @ + 1]
      b == [a EXCEPT !.jb.logs = LET l == Append(@, Stamp(log, c.t)) IN
                                 IF Len(l) > LOG_TRIM_ABOVE THEN Last(l, LOG_KEEP) ELSE l]
  IN
  IF delayNeeded(b.t, b.jb)
  THEN [b EXCEPT !.t.pc = "delay", !.t.timer = Ticks(IF longPauseDue(b.t) THEN lp ELSE d)]
  ELSE postSessionGroups([b EXCEPT !.t.i = @ + 1], env)

\* ------------------------------------------------------------------ a round
\* a partition with one driver per group
PartitionByGroup(g) == g

\* postRound groups the list by group.sessionId (lines 346-351)
PartitionKey(g) == GroupSession[g]

RECURSIVE KeysInOrder(_, _)
KeysInOrder(groups, seen) ==
  IF groups = <<>> THEN <<>>
  ELSE LET k == PartitionKey(Head(groups)) IN
       IF k \in seen THEN KeysInOrder(Tail(groups), seen)
       ELSE <<k>> \o KeysInOrder(Tail(groups), seen \cup {k})

groupsBySession(groups) ==
  [k \in {PartitionKey(g) : g \in Range(groups)} |->
     SelectSeq(groups, LAMBDA g : PartitionKey(g) = k)]

\* line 361: each session's sublist is shuffled once more
SubShuffles(bySession) ==
  {f \in [DOMAIN bySession -> UNION {shuffleArray(bySession[k]) : k \in DOMAIN bySession}] :
     \A k \in DOMAIN bySession : f[k] \in shuffleArray(bySession[k])}

\* lines 359-362: map() calls postSessionGroups for each session in turn; each call
\* runs to its first await before the next one starts
RECURSIVE startDrivers(_, _, _, _, _, _)
startDrivers(keys, sub, round, c, env, acc) ==
  IF keys = <<>> THEN [c |-> c, ts |-> acc]
  ELSE LET k == Head(keys)
           r == postSessionGroups([c EXCEPT !.t = NewTask(k, round, sub[k])], env)
       IN startDrivers(Tail(keys), sub, round, r, env, acc @@ (<<round, k>> :> r.t))

\* a wait that ends with the first driver to settle
anySettled(ts) == \E k \in DOMAIN ts : ~Live(ts[k])

\* a wait that only ends when every driver has returned
allFulfilled(ts) == \A k \in DOMAIN ts : ts[k].pc = "done"

\* line 364: Promise.allSettled resolves once every driver has returned or thrown
allSettled(ts) == \A k \in DOMAIN ts : ~Live(ts[k])

LiveTasks(ts) == [k \in {x \in DOMAIN ts : Live(ts[x])} |-> ts[k]]

Env == [cl |-> clients, sess |-> sessions]
Ctx(j, t) == [jb |-> job[j], ss |-> sessionStates, gi |-> jobGroups[j], t |-> t]

Commit(j, k, c) ==
  /\ job' = [job EXCEPT ![j] = c.jb]
  /\ sessionStates' = c.ss
  /\ jobGroups' = [jobGroups EXCEPT ![j] = c.gi]
  /\ tasks' = [tasks EXCEPT ![j][k] = c.t]

\* runPostingLoop at the top of while (true) when stop or pause is requested
\* (lines 290-302)
runPostingLoop(j) ==
  IF job[j].stopRequested
  THEN /\ job' = [job EXCEPT ![j].status = "stopped"]
       /\ loop' = [loop EXCEPT ![j] = [pc |-> "done", timer |-> 0, pauseLeft |-> 0]]
  ELSE /\ job[j].pauseRequested
       /\ job' = [job EXCEPT ![j].status = "paused"]
       /\ loop' = [loop EXCEPT ![j] =
                     [pc |-> "pausePoll", timer |-> Ticks(LOOP_PAUSE_TICKS), pauseLeft |-> 0]]

\* runPostingLoop shuffles the list and calls postRound, which starts the drivers
\* and awaits them (lines 304-308, 342-364)
postRound(j, jb, gi, cl) ==
  /\ \E shuffled \in shuffleArray(SetToSeq(DOMAIN gi)) :
     \E sub \in SubShuffles(groupsBySession(shuffled)) :
       LET c0 == [jb |-> jb, ss |-> sessionStates, gi |-> gi,
                  t |-> NewTask("none", 0, <<>>)]
           r == startDrivers(KeysInOrder(shuffled, {}), sub, jb.roundsCompleted + 1,
                             c0, [cl |-> cl, sess |-> sessions], LiveTasks(tasks[j]))
       IN /\ job' = [job EXCEPT ![j] = r.c.jb]
          /\ sessionStates' = r.c.ss
          /\ jobGroups' = [jobGroups EXCEPT ![j] = r.c.gi]
          /\ tasks' = [tasks EXCEPT ![j] = r.ts]
  /\ loop' = [loop EXCEPT ![j] = [pc |-> "inRound", timer |-> 0, pauseLeft |-> 0]]

\* ------------------------------------------------------------- startPosting
\* connectSession: the client connects, fails, or the platform reports the key dead
ConnectOutcomes == {"ok", "error", "dead"}

markSessionDead(row) ==
  [row EXCEPT !.status = "BANNED", !.isFrozen = TRUE, !.frozenAt = 0]

\* the request comes back with a job (error "") or with the message of the Error
\* thrown; calls is the parity of the number of requests so far
Answer(adId, error) ==
  [calls |-> (startResult.calls + 1) % 2, adId |-> adId, error |-> error]

\* POST start-posting/:adId and the bot's post_ad callback: the ad is looked up by
\* its id, then PostingService.startPosting runs with its content and the caller's
\* userId. Job ids are fresh: the jobs of a run are started in the order of JobIds.
startPosting(j) ==
  /\ UNCHANGED <<cfg, schedVars, payVars, syncVars>>
  /\ j \in cfg.jobs
  /\ job[j].status = "none"
  /\ \A h \in cfg.jobs \cap Earlier(j) : job[h].status # "none"
  /\ LET found == {s \in SessionIds : /\ sessions[s].status = "ACTIVE"
                                     /\ ~sessions[s].isFrozen
                                     /\ sessions[s].sessionString}
     IN
     \E adId \in cfg.ads, res \in [found \ clients -> ConnectOutcomes] :
       LET cl == clients \cup {s \in DOMAIN res : res[s] = "ok"}
           connectedSessions == {s \in found : isClientConnected(cl, s)}
           allGroups == {g \in GroupIds : /\ GroupSession[g] \in connectedSessions
                                          /\ groupRows[g].isActive
                                          /\ ~groupRows[g].isSkipped}
           rows == [s \in SessionIds |->
                      IF s \in DOMAIN res /\ res[s] = "dead"
                      THEN markSessionDead(sessions[s]) ELSE sessions[s]]
       IN
       IF adId \notin DOMAIN Ads \/ found = {}
       THEN /\ startResult' = Answer(adId, IF adId \notin DOMAIN Ads THEN "E'lon topilmadi"
                                           ELSE "Faol session topilmadi")
            /\ UNCHANGED <<sessions, clients, sessionStates, activeJobs, job, jobGroups,
                           loop, tasks>>
       ELSE IF connectedSessions = {} \/ allGroups = {}
       THEN /\ startResult' = Answer(adId, IF connectedSessions = {}
                                           THEN "Hech bir session ulanmadi"
                                           ELSE "guruhlar topilmadi")
            /\ clients' = cl
            /\ sessions' = rows
            /\ UNCHANGED <<sessionStates, activeJobs, job, jobGroups, loop, tasks>>
       ELSE /\ startResult' = Answer(adId, "")
            /\ clients' = cl
            /\ sessions' = rows
            /\ activeJobs' = activeJobs \cup {j}
            /\ postRound(j, [NoJob EXCEPT !.adId = adId, !.status = "running",
                                         !.totalGroups = Cardinality(allGroups)],
                         [g \in allGroups |-> groupRows[g].lastPostAt], cl)
  /\ UNCHANGED <<groupRows, opsLeft, faultsLeft, sinceStop, stoppedAtZero>>

\* ------------------------------------------------------ driver continuations
TaskAt(j, k, pc) == k \in DOMAIN tasks[j] /\ tasks[j][k].pc = pc

\* client.sendMessage returns or throws; postToGroup classifies it (lines 510-695)
sendReturn(j, k) ==
  /\ UNCHANGED <<cfg, startResult, schedVars, payVars, syncVars>>
  /\ TaskAt(j, k, "sending")
  /\ \E o \in cfg.outcomes, n \in FloodWaits,
        d \in getRandomDelay(MIN_GROUP_DELAY_MS, MAX_GROUP_DELAY_MS),
        lp \in getRandomDelay(LONG_PAUSE_MIN_MS, LONG_PAUSE_MAX_MS) :
       LET t == [tasks[j][k] EXCEPT !.since = 0, !.at = NoSend]
           g == t.groups[t.i]
           s == GroupSession[g]
           c == Ctx(j, t)
       IN
       /\ o # "ok" => faultsLeft > 0
       /\ faultsLeft' = IF o = "ok" THEN faultsLeft ELSE faultsLeft - 1
       /\ CASE o = "ok" ->
              /\ groupRows' = [groupRows EXCEPT ![g].lastPostAt = 0]
              /\ Commit(j, k, afterPost(c, Env, TRUE, Log(g, "success", ""), d, lp))
              /\ UNCHANGED <<sessions, clients>>
         [] o = "flood" ->
              LET first == t.i = 1 /\ n > FLOOD_INLINE_MAX
                  f == [c EXCEPT !.ss[s] = recordFlood(@),
                                 !.t.floodFirst = @ \/ first,
                                 !.t.waited = @ /\ ~first]
              IN
              /\ IF n <= FLOOD_INLINE_MAX
                 THEN Commit(j, k, [f EXCEPT !.t.pc = "floodWait", !.t.timer = Ticks(n)])
                 ELSE Commit(j, k, afterPost([f EXCEPT !.ss[s] = armCooldown(@, Ticks(n))], Env,
                                             FALSE, Log(g, "failed", "FLOOD_WAIT"), d, lp))
              /\ UNCHANGED <<groupRows, sessions, clients>>
         [] o = "slowmode" ->
              /\ groupRows' = [groupRows EXCEPT ![g].hasRestrictions = TRUE,
                                                ![g].skipReason = "Slowmode"]
              /\ Commit(j, k, afterPost([c EXCEPT !.ss[s] = slowMode(@)], Env, FALSE,
                                        Log(g, "skipped", "SLOWMODE"), d, lp))
              /\ UNCHANGED <<sessions, clients>>
         [] o \in {"forbidden", "restricted"} ->
              /\ groupRows' = [groupRows EXCEPT ![g].hasRestrictions = TRUE,
                                                ![g].isSkipped = TRUE,
                                                ![g].skipReason =
                                                  IF o = "forbidden" THEN "Yozish taqiqlangan"
                                                  ELSE "Cheklangan guruh"]
              /\ Commit(j, k, afterPost(c, Env, FALSE,
                          Log(g, "skipped", IF o = "forbidden" THEN "Yozish taqiqlangan"
                                            ELSE "Cheklangan guruh"), d, lp))
              /\ UNCHANGED <<sessions, clients>>
         [] o = "dead" ->
              /\ sessions' = [sessions EXCEPT ![s] = markSessionDead(@)]
              /\ clients' = clients \ {s}
              /\ Commit(j, k, afterPost([c EXCEPT !.ss[s] = sessionDead(@)],
                                        [cl |-> clients \ {s}, sess |-> sessions'],
                                        FALSE, Log(g, "failed", "Session o'lgan"), d, lp))
              /\ UNCHANGED groupRows
         [] o = "transient" ->
              /\ Commit(j, k, afterPost([c EXCEPT !.ss[s] = recordError(@)], Env,
                                        FALSE, Log(g, "failed", "error"), d, lp))
              /\ UNCHANGED <<groupRows, sessions, clients>>
  /\ UNCHANGED <<activeJobs, loop, opsLeft, sinceStop, stoppedAtZero>>

\* the inline wait of a flood signal of at most 60 s is over (lines 542-567)
floodWake(j, k) ==
  /\ UNCHANGED <<cfg, startResult, schedVars, payVars, syncVars>>
  /\ TaskAt(j, k, "floodWait")
  /\ tasks[j][k].timer = 0
  /\ \E d \in getRandomDelay(MIN_GROUP_DELAY_MS, MAX_GROUP_DELAY_MS),
        lp \in getRandomDelay(LONG_PAUSE_MIN_MS, LONG_PAUSE_MAX_MS) :
       LET t == tasks[j][k] IN
       Commit(j, k, afterPost(Ctx(j, t), Env, FALSE,
                              Log(t.groups[t.i], "failed", "FLOOD_WAIT"), d, lp))
  /\ UNCHANGED <<sessions, groupRows, clients, activeJobs, loop, opsLeft, faultsLeft, sinceStop,
                 stoppedAtZero>>

\* the inter-group delay or long pause is over (lines 466-473)
delayWake(j, k) ==
  /\ UNCHANGED <<cfg, startResult, schedVars, payVars, syncVars>>
  /\ TaskAt(j, k, "delay")
  /\ tasks[j][k].timer = 0
  /\ Commit(j, k, postSessionGroups(Ctx(j, [tasks[j][k] EXCEPT !.i = @ + 1]), Env))
  /\ UNCHANGED <<sessions, groupRows, clients, activeJobs, loop, opsLeft, faultsLeft, sinceStop,
                 stoppedAtZero>>

\* a delay(2000) of the pause-wait loop is over (line 401)
pauseWake(j, k) ==
  /\ UNCHANGED <<cfg, startResult, schedVars, payVars, syncVars>>
  /\ TaskAt(j, k, "pauseWait")
  /\ tasks[j][k].timer = 0
  /\ Commit(j, k, pauseWaitWake(Ctx(j, tasks[j][k]), Env))
  /\ UNCHANGED <<sessions, groupRows, clients, activeJobs, loop, opsLeft, faultsLeft, sinceStop,
                 stoppedAtZero>>

\* connectSession called by postToGroup returns or throws (lines 489-507)
connectReturn(j, k) ==
  /\ UNCHANGED <<cfg, startResult, schedVars, payVars, syncVars>>
  /\ TaskAt(j, k, "connecting")
  /\ \E o \in ConnectOutcomes,
        d \in getRandomDelay(MIN_GROUP_DELAY_MS, MAX_GROUP_DELAY_MS),
        lp \in getRandomDelay(LONG_PAUSE_MIN_MS, LONG_PAUSE_MAX_MS) :
       LET t == tasks[j][k]
           g == t.groups[t.i]
           s == GroupSession[g]
           c == Ctx(j, t)
       IN
       IF isClientConnected(clients, s) \/ o = "ok"
       THEN /\ clients' = clients \cup {s}
            /\ Commit(j, k, issueSend(c, Env, TRUE))
            /\ UNCHANGED <<sessions, faultsLeft>>
       ELSE /\ faultsLeft > 0
            /\ faultsLeft' = faultsLeft - 1
            /\ sessions' = IF o = "dead" THEN [sessions EXCEPT ![s] = markSessionDead(@)]
                           ELSE sessions
            /\ Commit(j, k, afterPost([c EXCEPT !.ss[s] = recordError(@)],
                                      [cl |-> clients, sess |-> sessions'], FALSE,
                                      Log(g, "skipped", "Session ulangan emas"), d, lp))
            /\ UNCHANGED clients
  /\ UNCHANGED <<groupRows, activeJobs, loop, opsLeft, sinceStop, stoppedAtZero>>

\* an exception escapes postSessionGroups: the driver's promise is rejected
driverThrow(j, k) ==
  /\ UNCHANGED <<cfg, startResult, schedVars, payVars, syncVars>>
  /\ TaskAt(j, k, "sending")
  /\ faultsLeft > 0
  /\ faultsLeft' = faultsLeft - 1
  /\ tasks' = [tasks EXCEPT ![j][k] = Returned(@, "rejected")]
  /\ UNCHANGED <<sessions, groupRows, clients, sessionStates, activeJobs, job, jobGroups,
                 loop, opsLeft, sinceStop, stoppedAtZero>>

\* -------------------------------------------------------- the round loop
\* postRound resumes after Promise.allSettled (lines 364-383), then runPostingLoop
\* checks stop and enters the inter-round pause (lines 310-335)
roundComplete(j) ==
  /\ UNCHANGED <<cfg, startResult, schedVars, payVars, syncVars>>
  /\ loop[j].pc = "inRound"
  /\ allSettled(tasks[j])
  /\ tasks' = [tasks EXCEPT ![j] = LiveTasks(@)]
  /\ LET jb == [job[j] EXCEPT !.roundsCompleted = @ + 1] IN
     IF jb.stopRequested
     THEN /\ job' = [job EXCEPT ![j] = [jb EXCEPT !.status = "stopped"]]
          /\ loop' = [loop EXCEPT ![j] = [pc |-> "done", timer |-> 0, pauseLeft |-> 0]]
     ELSE /\ job' = [job EXCEPT ![j] = jb]
          /\ \E roundPause \in getRandomDelay(ROUND_PAUSE_MS - ROUND_JITTER_MS,
                                              ROUND_PAUSE_MS + ROUND_JITTER_MS) :
               loop' = [loop EXCEPT ![j] = [pc |-> "roundPause", timer |-> Ticks(POLL_TICKS),
                                            pauseLeft |-> Ticks(roundPause)]]
  /\ UNCHANGED <<sessions, groupRows, clients, sessionStates, activeJobs, jobGroups,
                 opsLeft, faultsLeft, sinceStop, stoppedAtZero>>

\* a delay(2000) of the inter-round pause is over (lines 330-335): sleep again, or
\* leave the pause on stop or at its end and meet stop or pause at the top of the loop
roundPauseWake(j) ==
  /\ UNCHANGED <<cfg, startResult, schedVars, payVars, syncVars>>
  /\ loop[j].pc = "roundPause"
  /\ loop[j].timer = 0
  /\ IF loop[j].pauseLeft > 0 /\ ~job[j].stopRequested
     THEN /\ loop' = [loop EXCEPT ![j].timer = Ticks(POLL_TICKS)]
          /\ UNCHANGED job
     ELSE runPostingLoop(j)
  /\ UNCHANGED <<sessions, groupRows, clients, sessionStates, activeJobs, jobGroups, tasks,
                 opsLeft, faultsLeft, sinceStop, stoppedAtZero>>

\* the delay(5000) of a paused loop is over (lines 298-302)
pausePollWake(j) ==
  /\ UNCHANGED <<cfg, startResult, schedVars, payVars, syncVars>>
  /\ loop[j].pc = "pausePoll"
  /\ loop[j].timer = 0
  /\ runPostingLoop(j)
  /\ UNCHANGED <<sessions, groupRows, clients, sessionStates, activeJobs, jobGroups, tasks,
                 opsLeft, faultsLeft, sinceStop, stoppedAtZero>>

\* the loop comes round with neither stop nor pause requested, after the inter-round
\* pause or after a resume: the next round starts (lines 290-308)
nextRound(j) ==
  /\ UNCHANGED <<cfg, startResult, schedVars, payVars, syncVars>>
  /\ \/ loop[j].pc = "roundPause" /\ loop[j].timer = 0 /\ loop[j].pauseLeft = 0
     \/ loop[j].pc = "pausePoll" /\ loop[j].timer = 0
  /\ ~job[j].stopRequested
  /\ ~job[j].pauseRequested
  /\ cfg.rounds
  /\ job[j].roundsCompleted < MaxRounds
  /\ postRound(j, job[j], jobGroups[j], clients)
  /\ UNCHANGED <<sessions, groupRows, clients, activeJobs, opsLeft, faultsLeft, sinceStop,
                 stoppedAtZero>>

\* ------------------------------------------------------------ job management
stopJob(j) ==
  /\ UNCHANGED <<cfg, startResult, schedVars, payVars, syncVars>>
  /\ j \in activeJobs
  /\ job' = [job EXCEPT ![j].stopRequested = TRUE]
  /\ sinceStop' = [sinceStop EXCEPT ![j] = IF @ = NONE /\ loop[j].pc # "done" THEN 0 ELSE @]
  /\ stoppedAtZero' = [stoppedAtZero EXCEPT ![j] =
                          IF job[j].stopRequested THEN @ ELSE job[j].postedGroups = 0]
  /\ UNCHANGED <<sessions, groupRows, clients, sessionStates, activeJobs, jobGroups, loop,
                 tasks, opsLeft, faultsLeft>>

pauseJob(j) ==
  /\ UNCHANGED <<cfg, startResult, schedVars, payVars, syncVars>>
  /\ j \in activeJobs
  /\ job' = [job EXCEPT ![j].pauseRequested = TRUE, ![j].status = "paused"]
  /\ UNCHANGED <<sessions, groupRows, clients, sessionStates, activeJobs, jobGroups, loop,
                 tasks, opsLeft, faultsLeft, sinceStop, stoppedAtZero>>

\* a resume that also takes the stop request back
resumeJobClearsStop(j) ==
  /\ UNCHANGED <<cfg, startResult, schedVars, payVars, syncVars>>
  /\ j \in activeJobs
  /\ job' = [job EXCEPT ![j].pauseRequested = FALSE, ![j].stopRequested = FALSE,
                        ![j].status = "running"]
  /\ UNCHANGED <<sessions, groupRows, clients, sessionStates, activeJobs, jobGroups, loop,
                 tasks, opsLeft, faultsLeft, sinceStop, stoppedAtZero>>

resumeJob(j) ==
  /\ UNCHANGED <<cfg, startResult, schedVars, payVars, syncVars>>
  /\ j \in activeJobs
  /\ job' = [job EXCEPT ![j].pauseRequested = FALSE, ![j].status = "running"]
  /\ UNCHANGED <<sessions, groupRows, clients, sessionStates, activeJobs, jobGroups, loop,
                 tasks, opsLeft, faultsLeft, sinceStop, stoppedAtZero>>

cleanupJob(j) ==
  /\ UNCHANGED <<cfg, startResult, schedVars, payVars, syncVars>>
  /\ j \in activeJobs
  /\ activeJobs' = activeJobs \ {j}
  /\ UNCHANGED <<sessions, groupRows, clients, sessionStates, job, jobGroups, loop, tasks,
                 opsLeft, faultsLeft, sinceStop, stoppedAtZero>>

\* ------------------------------------------------- the tenant's session actions
disconnectSession(s) ==
  /\ UNCHANGED <<cfg, startResult, schedVars, payVars, syncVars>>
  /\ opsLeft > 0
  /\ opsLeft' = opsLeft - 1
  /\ clients' = clients \ {s}
  /\ sessions' = [sessions EXCEPT ![s].status = "INACTIVE"]
  /\ UNCHANGED <<groupRows, sessionStates, activeJobs, job, jobGroups, loop, tasks,
                 faultsLeft, sinceStop, stoppedAtZero>>

deleteSession(s) ==
  /\ UNCHANGED <<cfg, startResult, schedVars, payVars, syncVars>>
  /\ opsLeft > 0
  /\ opsLeft' = opsLeft - 1
  /\ clients' = clients \ {s}
  /\ sessions' = [sessions EXCEPT ![s].status = "DELETED"]
  /\ UNCHANGED <<groupRows, sessionStates, activeJobs, job, jobGroups, loop, tasks,
                 faultsLeft, sinceStop, stoppedAtZero>>

markSessionFrozen(s) ==
  /\ UNCHANGED <<cfg, startResult, schedVars, payVars, syncVars>>
  /\ opsLeft > 0
  /\ opsLeft' = opsLeft - 1
  /\ sessions' = [sessions EXCEPT ![s].isFrozen = TRUE, ![s].frozenAt = 0]
  /\ UNCHANGED <<groupRows, clients, sessionStates, activeJobs, job, jobGroups, loop,
                 tasks, faultsLeft, sinceStop, stoppedAtZero>>

\* ------------------------------------------------------------- maintenance
\* SessionsService.cleanupFrozenSessions: updateMany on every row with isFrozen
\* and frozenAt <= now - olderThanDays; the where clause names no status
cleanupFrozenSessions(rows, olderThanDays) ==
  [s \in DOMAIN rows |->
     IF rows[s].isFrozen /\ rows[s].frozenAt # NONE /\ rows[s].frozenAt >= olderThanDays
     THEN [rows[s] EXCEPT !.isFrozen = FALSE, !.frozenAt = NONE]
     ELSE rows[s]]

\* SchedulerService.handleFrozenSessions, the cron job of 03:00 every day
handleFrozenSessions ==
  /\ UNCHANGED <<cfg, startResult, schedVars, payVars, syncVars>>
  /\ sessions' = cleanupFrozenSessions(sessions, OLDER_THAN_DAYS)
  /\ UNCHANGED <<groupRows, clients, sessionStates, activeJobs, job, jobGroups, loop,
                 tasks, opsLeft, faultsLeft, sinceStop, stoppedAtZero>>

\* a day goes by: every frozenAt lies one day further back (ages beyond
\* olderThanDays are not told apart)
Day ==
  /\ UNCHANGED <<cfg, startResult, schedVars, payVars, syncVars>>
  /\ \E s \in SessionIds : sessions[s].frozenAt \notin {NONE, OLDER_THAN_DAYS}
  /\ sessions' = [s \in SessionIds |->
                    [sessions[s] EXCEPT !.frozenAt = Age(@, OLDER_THAN_DAYS)]]
  /\ UNCHANGED <<groupRows, clients, sessionStates, activeJobs, job, jobGroups, loop,
                 tasks, opsLeft, faultsLeft, sinceStop, stoppedAtZero>>

\* ------------------------------------------------- PostsService: distribution
\* engineVars without the Session rows
engineRest == <<groupRows, clients, sessionStates, activeJobs, job, jobGroups, loop,
                tasks, opsLeft, faultsLeft, cfg, startResult, sinceStop, stoppedAtZero>>

\* getTargetGroups: the session's groups that are active and not skipped (the
\* model keeps how many there are)
getTargetGroups(sessionId) ==
  Cardinality({g \in GroupIds : /\ GroupSession[g] = sessionId
                                /\ groupRows[g].isActive
                                /\ ~groupRows[g].isSkipped})

\* the frame of a distributeContent call for Post p over n groups, from group i on
distributeContent(p, n) ==
  [post |-> p, pc |-> "check", i |-> 1, n |-> n, completedCount |-> 0, failedCount |-> 0]

\* the final post.update of distributeContent
markCompleted(row) == [row EXCEPT !.status = "COMPLETED"]

\* the top of an iteration: the Post is read again; a paused Post ends the loop,
\* any other status lets the Send to the next group go out; after the last group and
\* after a break the Post is marked COMPLETED
distributionCheck(d) ==
  /\ d \in DOMAIN distribution
  /\ distribution[d].pc = "check"
  /\ LET f == distribution[d]
         p == f.post IN
     IF f.i > f.n \/ postRows[p].status = "PAUSED"
     THEN /\ postRows' = [postRows EXCEPT ![p] = markCompleted(@)]
          /\ distribution' = [distribution EXCEPT ![d].pc = "done"]
     ELSE /\ distribution' = [distribution EXCEPT ![d].pc = "sending"]
          /\ UNCHANGED postRows
  /\ UNCHANGED <<adRows, scan, payVars, syncVars, engineVars>>

\* more than 30% of the groups failed
tooManyFailures(failedCount, n) == failedCount * 10 > n * 3

\* sendMessageToGroup returns or throws: the history row is written, the progress
\* is saved and the loop sleeps before the next group; after too many failures
\* handlePotentialFreeze freezes the session and pauses the Post, and the loop ends
distributionSendReturn(d) ==
  /\ d \in DOMAIN distribution
  /\ distribution[d].pc = "sending"
  /\ LET f == distribution[d]
         p == f.post IN
     \E ok \in BOOLEAN :
       IF ok
       THEN /\ postRows' = [postRows EXCEPT ![p].completedGroups = f.completedCount + 1,
                                             ![p].lastGroupIndex = f.i - 1]
            /\ distribution' = [distribution EXCEPT
                                  ![d].completedCount = @ + 1,
                                  ![d].pc = IF f.i < f.n THEN "sleep" ELSE "check",
                                  ![d].i = IF f.i < f.n THEN @ ELSE @ + 1]
            /\ UNCHANGED sessions
       ELSE IF tooManyFailures(f.failedCount + 1, f.n)
       THEN /\ sessions' = [sessions EXCEPT ![postRows[p].sessionId].isFrozen = TRUE,
                                            ![postRows[p].sessionId].frozenAt = 0]
            /\ postRows' = [postRows EXCEPT ![p].status = "PAUSED"]
            /\ distribution' = [distribution EXCEPT ![d].failedCount = @ + 1,
                                                    ![d].pc = "finish"]
       ELSE /\ distribution' = [distribution EXCEPT ![d].failedCount = @ + 1,
                                                    ![d].pc = "check", ![d].i = @ + 1]
            /\ UNCHANGED <<postRows, sessions>>
  /\ UNCHANGED <<adRows, scan, payVars, syncVars, engineRest>>

\* the sleep between two groups is over
distributionWake(d) ==
  /\ d \in DOMAIN distribution
  /\ distribution[d].pc = "sleep"
  /\ distribution' = [distribution EXCEPT ![d].pc = "check", ![d].i = @ + 1]
  /\ UNCHANGED <<adRows, postRows, scan, payVars, syncVars, engineVars>>

\* after handlePotentialFreeze and break: the Post is marked COMPLETED
distributionFinish(d) ==
  /\ d \in DOMAIN distribution
  /\ distribution[d].pc = "finish"
  /\ postRows' = [postRows EXCEPT ![distribution[d].post] = markCompleted(@)]
  /\ distribution' = [distribution EXCEPT ![d].pc = "done"]
  /\ UNCHANGED <<adRows, scan, payVars, syncVars, engineVars>>

\* pausePost: only a Post in progress can be paused
pausePost(p) ==
  /\ p \in DOMAIN postRows
  /\ postRows[p].status = "IN_PROGRESS"
  /\ postRows' = [postRows EXCEPT ![p].status = "PAUSED", ![p].lastPausedAt = 0]
  /\ UNCHANGED <<adRows, scan, distribution, payVars, syncVars, engineVars>>

\* cancelPost: whatever the status
cancelPost(p) ==
  /\ p \in DOMAIN postRows
  /\ postRows[p].status # "CANCELLED"
  /\ postRows' = [postRows EXCEPT ![p].status = "CANCELLED"]
  /\ UNCHANGED <<adRows, scan, distribution, payVars, syncVars, engineVars>>

\* groups.slice(startIndex + 1) with startIndex = post.lastGroupIndex || 0: how
\* many groups are left
remainingGroups(n, lastGroupIndex) ==
  LET startIndex == IF lastGroupIndex = NONE THEN 0 ELSE lastGroupIndex
      rest == n - (startIndex + 1) IN
  IF rest > 0 THEN rest ELSE 0

\* resumePost, once the ten minutes since lastPausedAt are over: the Post goes
\* back to IN_PROGRESS and a new distributeContent call is started for the groups
\* after lastGroupIndex
resumePost(p) ==
  /\ p \in DOMAIN postRows
  /\ postRows[p].status = "PAUSED"
  /\ Len(distribution) <= MaxResumes
  /\ postRows' = [postRows EXCEPT ![p].status = "IN_PROGRESS"]
  /\ distribution' =
       Append(distribution,
              distributeContent(p, remainingGroups(getTargetGroups(postRows[p].sessionId),
                                                   postRows[p].lastGroupIndex)))
  /\ UNCHANGED <<adRows, scan, payVars, syncVars, engineVars>>

\* ------------------------------------------------ SchedulerService: due ads
\* the where clause of the scan
isDue(ad) == ad.isScheduled /\ ad.scheduledFor = 0 /\ ad.status \in {"ACTIVE", "PAUSED"}

\* a scan that gives up at the first ad that fails
abortOnFailure(sc) ==
  IF sc.i < Len(sc.ads) /\ sc.pc # "failed"
  THEN [sc EXCEPT !.pc = "publish", !.i = @ + 1, !.error = ""]
  ELSE [sc EXCEPT !.pc = "idle", !.error = ""]

\* for (const ad of scheduledAds): on to the next ad, after the try as after the catch
nextAd(sc) ==
  IF sc.i < Len(sc.ads)
  THEN [sc EXCEPT !.pc = "publish", !.i = @ + 1, !.error = ""]
  ELSE [sc EXCEPT !.pc = "idle", !.error = ""]

\* the cron job of every minute: findMany of the due ads, in any order
handleScheduledAds ==
  /\ scan.pc = "idle"
  /\ scan.runs < MaxScans
  /\ LET due == {a \in DOMAIN adRows : isDue(adRows[a])} IN
     \E ads \in shuffleArray(SetToSeq(due)) :
       scan' = IF ads = <<>>
               THEN [scan EXCEPT !.ads = ads, !.i = 0, !.runs = @ + 1]
               ELSE [scan EXCEPT !.pc = "publish", !.ads = ads, !.i = 1, !.runs = @ + 1]
  /\ UNCHANGED <<adRows, postRows, distribution, payVars, syncVars, engineVars>>

\* post.create and startDistribution for the ad at hand: the Post is created
\* PENDING with sessionId = ad.sessionId || ''; getTargetGroups throws when that
\* session does not exist, otherwise the Post goes IN_PROGRESS and
\* distributeContent is started
publishScheduledAd ==
  /\ scan.pc = "publish"
  /\ LET a == scan.ads[scan.i]
         sessionId == adRows[a].sessionId
         post == [adId |-> a, sessionId |-> sessionId, status |-> "PENDING",
                  completedGroups |-> 0, lastGroupIndex |-> NONE, lastPausedAt |-> NONE]
         p == Len(postRows) + 1 IN
     IF sessionId \notin DOMAIN sessions
     THEN /\ postRows' = Append(postRows, post)
          /\ scan' = [scan EXCEPT !.pc = "failed", !.error = "Session not found"]
          /\ UNCHANGED distribution
     ELSE /\ postRows' = Append(postRows, [post EXCEPT !.status = "IN_PROGRESS"])
          /\ distribution' = Append(distribution,
                                    distributeContent(p, getTargetGroups(sessionId)))
          /\ scan' = [scan EXCEPT !.pc = "started"]
  /\ UNCHANGED <<adRows, payVars, syncVars, engineVars>>

\* ad.update at the end of the try (ACTIVE, lastScheduledAt) or in the catch
\* (PAUSED, lastError), then the loop goes on
markScheduledAd ==
  /\ scan.pc \in {"started", "failed"}
  /\ LET a == scan.ads[scan.i] IN
     adRows' = IF scan.pc = "started"
               THEN [adRows EXCEPT ![a].status = "ACTIVE", ![a].lastScheduledAt = 0]
               ELSE [adRows EXCEPT ![a].status = "PAUSED", ![a].lastError = scan.error]
  /\ scan' = nextAd(scan)
  /\ UNCHANGED <<postRows, distribution, payVars, syncVars, engineVars>>

\* AdsService.pause, publish and remove, called by the tenant
adsPause(a) ==
  /\ a \in DOMAIN adRows
  /\ adRows[a].status = "ACTIVE"
  /\ adRows' = [adRows EXCEPT ![a].status = "PAUSED"]
  /\ UNCHANGED <<postRows, scan, distribution, payVars, syncVars, engineVars>>

adsPublish(a) ==
  /\ a \in DOMAIN adRows
  /\ adRows[a].status \in {"DRAFT", "PAUSED"}
  /\ adRows' = [adRows EXCEPT ![a].status = "ACTIVE"]
  /\ UNCHANGED <<postRows, scan, distribution, payVars, syncVars, engineVars>>

adsRemove(a) ==
  /\ a \in DOMAIN adRows
  /\ adRows[a].status # "ARCHIVED"
  /\ adRows' = [adRows EXCEPT ![a].status = "ARCHIVED"]
  /\ UNCHANGED <<postRows, scan, distribution, payVars, syncVars, engineVars>>

\* a minute goes by: scheduledFor comes one minute closer
Minute ==
  /\ \E a \in DOMAIN adRows : adRows[a].scheduledFor > 0
  /\ adRows' = [a \in DOMAIN adRows |-> [adRows[a] EXCEPT !.scheduledFor = Dec(@)]]
  /\ UNCHANGED <<postRows, scan, distribution, payVars, syncVars, engineVars>>

\* ------------------------------------------------- SessionsService: groups
\* the group snapshots a synchronisation may hand over
PlatformIds == {"p1", "p2"}
Titles == {"t1", "t2"}
GroupSnapshots == [telegramId : PlatformIds, title : Titles]

RECURSIVE SeqsUpTo(_, _)
SeqsUpTo(S, n) ==
  IF n = 0 THEN {<<>>}
  ELSE LET shorter == SeqsUpTo(S, n - 1) IN
       shorter \cup {Append(q, x) : q \in {r \in shorter : Len(r) = n - 1}, x \in S}

\* the unique index of the Group table
UniqueKey(row) == <<row.sessionId, row.telegramId>>

\* a bulk insert that inserts every row
createManyAll(rows, data) ==
  [rows |-> rows \o data, count |-> Len(data)]

RECURSIVE createMany(_, _)
\* prisma.group.createMany with skipDuplicates: true: a row whose key is already
\* in the table, or came earlier in the batch, is left out
createMany(rows, data) ==
  IF data = <<>> THEN [rows |-> rows, count |-> 0]
  ELSE IF \E n \in DOMAIN rows : UniqueKey(rows[n]) = UniqueKey(Head(data))
  THEN createMany(rows, Tail(data))
  ELSE LET r == createMany(Append(rows, Head(data)), Tail(data)) IN
       [rows |-> r.rows, count |-> r.count + 1]

\* SessionsService.batchAddGroups: the bulk insert, then totalGroups is raised by
\* the number of rows inserted
batchAddGroups(sessionId, groups) ==
  /\ LET data == [n \in DOMAIN groups |->
                    [sessionId |-> sessionId, telegramId |-> groups[n].telegramId,
                     title |-> groups[n].title]]
         result == createMany(groupTable.rows, data) IN
     groupTable' = [rows |-> result.rows,
                    totalGroups |-> [groupTable.totalGroups EXCEPT
                                       ![sessionId] = @ + result.count]]
  /\ lastBatch' = [calls |-> (lastBatch.calls + 1) % 2, sessionId |-> sessionId,
                   groups |-> groups]
  /\ UNCHANGED <<schedVars, payVars, engineVars>>

\* ---------------------------------------------------------- PaymentsService
PaymentIds == {"p1", "p2"}
\* the admins' calls of approve and reject
ReviewIds == {"r1", "r2"}

NoReview == [kind |-> "none", payment |-> "none", pc |-> "none"]

\* approve(id) and reject(id) up to their findUnique: a payment that is not
\* PENDING is refused, otherwise the call goes on to its update
reviewFind(r, kind, id) ==
  /\ reviews[r].pc = "none"
  /\ reviews' = [reviews EXCEPT ![r] =
                   [kind |-> kind, payment |-> id,
                    pc |-> IF payments[id].status = "PENDING" THEN "found" ELSE "refused"]]
  /\ UNCHANGED <<payments, schedVars, syncVars, engineVars>>

\* the update of approve (with the subscription it activates) or of reject: by id
\* alone
reviewUpdate(r) ==
  /\ reviews[r].pc = "found"
  /\ payments' = [payments EXCEPT ![reviews[r].payment] =
                    IF reviews[r].kind = "approve"
                    THEN [@ EXCEPT !.status = "APPROVED", !.subscriptions = @ + 1]
                    ELSE [@ EXCEPT !.status = "REJECTED"]]
  /\ reviews' = [reviews EXCEPT ![r].pc = "done"]
  /\ UNCHANGED <<schedVars, syncVars, engineVars>>

\* expirePending(48), the cron job of every six hours: one updateMany over the
\* payments that are PENDING and were created at least olderThanHours ago
expirePending ==
  /\ payments' = [id \in DOMAIN payments |->
                    IF payments[id].status = "PENDING" /\ payments[id].old
                    THEN [payments[id] EXCEPT !.status = "EXPIRED"]
                    ELSE payments[id]]
  /\ UNCHANGED <<reviews, schedVars, syncVars, engineVars>>

\* the payment's createdAt falls behind now - olderThanHours
paymentGrowsOld(id) ==
  /\ ~payments[id].old
  /\ payments' = [payments EXCEPT ![id].old = TRUE]
  /\ UNCHANGED <<reviews, schedVars, syncVars, engineVars>>

\* ----------------------------------------------------------------- the network
\* the connection of a session's client drops: client.connected turns false and
\* isClientConnected no longer finds the session connected
connectionLost(s) ==
  /\ UNCHANGED <<cfg, startResult, schedVars, payVars, syncVars>>
  /\ faultsLeft > 0
  /\ s \in clients
  /\ faultsLeft' = faultsLeft - 1
  /\ clients' = clients \ {s}
  /\ UNCHANGED <<sessions, groupRows, sessionStates, activeJobs, job, jobGroups, loop, tasks,
                 opsLeft, sinceStop, stoppedAtZero>>

\* ------------------------------------------------------------------- the clock
STOP_LATENCY == MAX_GROUP_DELAY_MS + POLL_TICKS

\* a timer that has run out fires, and a Send returns within its timeout, before
\* the clock moves on
Urgent ==
  \E j \in JobIds :
    \/ \E k \in DOMAIN tasks[j] : Live(tasks[j][k]) /\ tasks[j][k].timer = 0
    \/ loop[j].pc = "inRound" /\ allSettled(tasks[j])
    \/ /\ loop[j].pc \in {"roundPause", "pausePoll"}
       /\ loop[j].timer = 0
       /\ \/ job[j].stopRequested
          \/ job[j].pauseRequested
          \/ loop[j].pc = "roundPause" /\ loop[j].pauseLeft > 0
          \/ cfg.rounds /\ job[j].roundsCompleted < MaxRounds

Tick ==
  /\ UNCHANGED <<cfg, startResult, schedVars, payVars, syncVars>>
  /\ ~Urgent
  /\ sessionStates' = [s \in SessionIds |->
                         [sessionStates[s] EXCEPT !.cooldownUntil = Dec(@),
                                                  !.lastFloodAt = Age(@, FLOOD_FREEZE_MS)]]
  /\ groupRows' = [g \in GroupIds |->
                     [groupRows[g] EXCEPT !.lastPostAt = Age(@, GROUP_COOLDOWN_MS)]]
  /\ jobGroups' = [j \in JobIds |->
                     [g \in DOMAIN jobGroups[j] |-> Age(jobGroups[j][g], GROUP_COOLDOWN_MS)]]
  /\ loop' = [j \in JobIds |->
                [loop[j] EXCEPT !.timer = Dec(@), !.pauseLeft = Dec(@)]]
  /\ tasks' = [j \in JobIds |->
                 [k \in DOMAIN tasks[j] |->
                    [tasks[j][k] EXCEPT !.timer = Dec(@),
                                        !.since = Age(@, MIN_GROUP_DELAY_MS)]]]
  /\ sinceStop' = [j \in JobIds |->
                     IF loop[j].pc = "done" THEN sinceStop[j]
                     ELSE Age(sinceStop[j], STOP_LATENCY + 1)]
  /\ UNCHANGED <<sessions, clients, activeJobs, job, opsLeft, faultsLeft, stoppedAtZero>>

\* ------------------------------------------- time left out: timers fire in any order
\* Without a clock every pending timer may run out at any moment, in any order: the
\* behaviours of the clocked program are among these.
timerFires(j, k) ==
  /\ UNCHANGED <<cfg, startResult, schedVars, payVars, syncVars>>
  /\ k \in DOMAIN tasks[j]
  /\ tasks[j][k].pc \in {"floodWait", "delay", "pauseWait"}
  /\ tasks[j][k].timer > 0
  /\ tasks' = [tasks EXCEPT ![j][k].timer = 0]
  /\ UNCHANGED <<sessions, groupRows, clients, sessionStates, activeJobs, job, jobGroups,
                 loop, opsLeft, faultsLeft, sinceStop, stoppedAtZero>>

loopTimerFires(j) ==
  /\ UNCHANGED <<cfg, startResult, schedVars, payVars, syncVars>>
  /\ loop[j].pc \in {"roundPause", "pausePoll"}
  /\ loop[j].timer > 0
  /\ loop' = [loop EXCEPT ![j].timer = 0]
  /\ UNCHANGED <<sessions, groupRows, clients, sessionStates, activeJobs, job, jobGroups,
                 tasks, opsLeft, faultsLeft, sinceStop, stoppedAtZero>>

roundPauseOver(j) ==
  /\ UNCHANGED <<cfg, startResult, schedVars, payVars, syncVars>>
  /\ loop[j].pauseLeft > 0
  /\ loop' = [loop EXCEPT ![j].pauseLeft = 0]
  /\ UNCHANGED <<sessions, groupRows, clients, sessionStates, activeJobs, job, jobGroups,
                 tasks, opsLeft, faultsLeft, sinceStop, stoppedAtZero>>

cooldownOver(s) ==
  /\ UNCHANGED <<cfg, startResult, schedVars, payVars, syncVars>>
  /\ sessionStates[s].cooldownUntil > 0
  /\ sessionStates' = [sessionStates EXCEPT ![s].cooldownUntil = 0]
  /\ UNCHANGED <<sessions, groupRows, clients, activeJobs, job, jobGroups, loop, tasks,
                 opsLeft, faultsLeft, sinceStop, stoppedAtZero>>

groupCooldownOver(g) ==
  /\ UNCHANGED <<cfg, startResult, schedVars, payVars, syncVars>>
  /\ \/ isGroupOnCooldown(groupRows[g].lastPostAt)
     \/ \E j \in JobIds : g \in DOMAIN jobGroups[j] /\ isGroupOnCooldown(jobGroups[j][g])
  /\ groupRows' = [groupRows EXCEPT ![g].lastPostAt =
                     IF @ = NONE THEN NONE ELSE GROUP_COOLDOWN_MS]
  /\ jobGroups' = [j \in JobIds |->
                     [h \in DOMAIN jobGroups[j] |->
                        IF h = g /\ jobGroups[j][h] # NONE THEN GROUP_COOLDOWN_MS
                        ELSE jobGroups[j][h]]]
  /\ UNCHANGED <<sessions, clients, sessionStates, activeJobs, job, loop, tasks, opsLeft, faultsLeft,
                 sinceStop, stoppedAtZero>>

\* --------------------------------------------------------------- specifications
TaskKeys == (1..MaxRounds) \X (SessionIds \cup GroupIds)

\* the job's life: start, the round loop, the controller's calls
Jobs ==
  \/ \E j \in JobIds : startPosting(j)
  \/ \E j \in JobIds : roundComplete(j)
  \/ \E j \in JobIds : roundPauseWake(j)
  \/ \E j \in JobIds : pausePollWake(j)
  \/ \E j \in JobIds : stopJob(j)
  \/ \E j \in JobIds : pauseJob(j)
  \/ \E j \in JobIds : resumeJob(j)
  \/ \E j \in JobIds : cleanupJob(j)

\* the driver steps every setting has: a Send returns, a delay or a pause poll ends
Drivers ==
  \/ \E j \in JobIds, k \in TaskKeys : sendReturn(j, k)
  \/ \E j \in JobIds, k \in TaskKeys : delayWake(j, k)
  \/ \E j \in JobIds, k \in TaskKeys : pauseWake(j, k)

\* timers that fire in any order
Elapse ==
  \/ \E j \in JobIds, k \in TaskKeys : timerFires(j, k)
  \/ \E j \in JobIds : loopTimerFires(j)
  \/ \E j \in JobIds : roundPauseOver(j)
  \/ \E g \in GroupIds : groupCooldownOver(g)

Tenant ==
  \/ \E s \in SessionIds : disconnectSession(s)
  \/ \E s \in SessionIds : deleteSession(s)
  \/ \E s \in SessionIds : markSessionFrozen(s)

\* Spec: a job's first round and the pause after it; two sessions (s1 with two
\* groups, s2 with one), any answer of the platform, timers that fire in any order
Init == Start({"s1", "s2"}, {"g1", "g2", "g4"},
              [ops |-> 0, faults |-> MaxFaults,
               outcomes |-> SendOutcomes, clock |-> FALSE, rounds |-> FALSE,
               jobs |-> {"j1"}, ads |-> {"a1"}])

Next ==
  \/ Jobs
  \/ Drivers
  \/ \E j \in JobIds, k \in TaskKeys : floodWake(j, k)
  \/ \E j \in JobIds, k \in TaskKeys : connectReturn(j, k)
  \/ \E j \in JobIds, k \in TaskKeys : driverThrow(j, k)
  \/ Elapse
  \/ \E s \in SessionIds : cooldownOver(s)

Spec == Init /\ [][Next]_vars

\* every Send that is in flight returns, every sleep that is due ends and every
\* callback that is ready runs
Progress ==
  \/ Drivers
  \/ \E j \in JobIds, k \in TaskKeys : floodWake(j, k)
  \/ \E j \in JobIds : roundComplete(j)
  \/ \E j \in JobIds : roundPauseWake(j)
  \/ \E j \in JobIds : pausePollWake(j)
  \/ \E j \in JobIds, k \in TaskKeys : timerFires(j, k)
  \/ \E j \in JobIds : loopTimerFires(j)

\* SpecLive: the first round with Sends and sleeps that return; the two sessions of
\* Spec, Sends that succeed or meet a flood wait
InitLive == Start({"s1", "s2"}, {"g1", "g2", "g4"},
                  [ops |-> 0, faults |-> MaxFaults - 1,
                   outcomes |-> {"ok", "flood"}, clock |-> FALSE, rounds |-> FALSE,
               jobs |-> {"j1"}, ads |-> {"a1"}])

NextLive ==
  \/ Jobs
  \/ Drivers
  \/ \E j \in JobIds, k \in TaskKeys : floodWake(j, k)
  \/ Elapse
  \/ \E s \in SessionIds : cooldownOver(s)

SpecLive == InitLive /\ [][NextLive]_vars /\ WF_vars(Progress)

\* SpecRounds: round after round, up to MaxRounds; two sessions with one group
\* each, a Send succeeds or finds writing forbidden, and a driver may throw
InitRounds == Start({"s1", "s2"}, {"g1", "g4"},
                    [ops |-> 0, faults |-> MaxFaults,
                     outcomes |-> {"ok", "forbidden"}, clock |-> FALSE, rounds |-> TRUE,
               jobs |-> {"j1"}, ads |-> {"a1"}])

NextRounds ==
  \/ Jobs
  \/ \E j \in JobIds : nextRound(j)
  \/ \E j \in JobIds, k \in TaskKeys : sendReturn(j, k)
  \/ \E j \in JobIds, k \in TaskKeys : driverThrow(j, k)
  \/ \E j \in JobIds : loopTimerFires(j)
  \/ \E j \in JobIds : roundPauseOver(j)
  \/ \E g \in GroupIds : groupCooldownOver(g)

SpecRounds == InitRounds /\ [][NextRounds]_vars

\* SpecTenant: the first round while the tenant disconnects, deletes or freezes a
\* session at any moment; two sessions, every Send succeeds
InitTenant == Start({"s1", "s2"}, {"g1", "g2", "g4"},
                    [ops |-> MaxTenantOps, faults |-> 0,
                     outcomes |-> {"ok"}, clock |-> FALSE, rounds |-> FALSE,
               jobs |-> {"j1"}, ads |-> {"a1"}])

NextTenant ==
  \/ Jobs
  \/ Drivers
  \/ \E j \in JobIds, k \in TaskKeys : connectReturn(j, k)
  \/ Tenant
  \/ Elapse

SpecTenant == InitTenant /\ [][NextTenant]_vars

\* SpecTimed: the first round on the clock; one session with three groups, Sends
\* that succeed or meet a flood wait
InitTimed == Start({"s1"}, {"g1", "g2", "g3"},
                   [ops |-> 0, faults |-> MaxFaults - 1,
                    outcomes |-> {"ok", "flood"}, clock |-> TRUE, rounds |-> FALSE,
               jobs |-> {"j1"}, ads |-> {"a1"}])

NextTimed ==
  \/ Jobs
  \/ Drivers
  \/ \E j \in JobIds, k \in TaskKeys : floodWake(j, k)
  \/ Tick

SpecTimed == InitTimed /\ [][NextTimed]_vars

\* SpecFlood: the first round on the clock with flood signals up to the freeze
\* threshold; one session with three groups
InitFlood == Start({"s1"}, {"g1", "g2", "g3"},
                   [ops |-> 0, faults |-> MaxFaults + 1,
                    outcomes |-> {"ok", "flood"}, clock |-> TRUE, rounds |-> FALSE,
               jobs |-> {"j1"}, ads |-> {"a1"}])

NextFlood ==
  \/ Jobs
  \/ Drivers
  \/ \E j \in JobIds, k \in TaskKeys : floodWake(j, k)
  \/ Tick

SpecFlood == InitFlood /\ [][NextFlood]_vars

\* SpecDead: round after round on the clock while the platform revokes one
\* session's key; two sessions (s1 with two groups, s2 with one)
InitDead == Start({"s1", "s2"}, {"g1", "g2", "g4"},
                  [ops |-> 0, faults |-> 1,
                   outcomes |-> {"ok", "dead"}, clock |-> TRUE, rounds |-> TRUE,
               jobs |-> {"j1"}, ads |-> {"a1"}])

NextDead ==
  \/ \E j \in JobIds : startPosting(j)
  \/ \E j \in JobIds : roundComplete(j)
  \/ \E j \in JobIds : roundPauseWake(j)
  \/ \E j \in JobIds : nextRound(j)
  \/ \E j \in JobIds, k \in TaskKeys : sendReturn(j, k)
  \/ \E j \in JobIds, k \in TaskKeys : delayWake(j, k)
  \/ Tick

SpecDead == InitDead /\ [][NextDead]_vars

\* SpecCooldown: two jobs of one tenant on the clock, the second started at any
\* moment after the first; one session with two groups, every Send succeeds
InitCooldown == Start({"s1"}, {"g1", "g2"},
                      [ops |-> 0, faults |-> 0,
                       outcomes |-> {"ok"}, clock |-> TRUE, rounds |-> FALSE,
               jobs |-> {"j1", "j2"}, ads |-> {"a1"}])

NextCooldown ==
  \/ \E j \in JobIds : startPosting(j)
  \/ \E j \in JobIds : roundComplete(j)
  \/ \E j \in JobIds : roundPauseWake(j)
  \/ \E j \in JobIds : stopJob(j)
  \/ \E j \in JobIds, k \in TaskKeys : sendReturn(j, k)
  \/ \E j \in JobIds, k \in TaskKeys : delayWake(j, k)
  \/ Tick

SpecCooldown == InitCooldown /\ [][NextCooldown]_vars

\* SpecLog: round after round on the clock with every group of the universe, so
\* that the log passes its trim threshold; two sessions (s1 with three groups, s2
\* with one), Sends that succeed or, once, meet a flood wait
InitLog == Start({"s1", "s2"}, GroupIds,
                 [ops |-> 0, faults |-> 1,
                  outcomes |-> {"ok", "flood"}, clock |-> TRUE, rounds |-> TRUE,
               jobs |-> {"j1"}, ads |-> {"a1"}])

NextLog ==
  \/ \E j \in JobIds : startPosting(j)
  \/ \E j \in JobIds : roundComplete(j)
  \/ \E j \in JobIds : roundPauseWake(j)
  \/ \E j \in JobIds : nextRound(j)
  \/ \E j \in JobIds, k \in TaskKeys : sendReturn(j, k)
  \/ \E j \in JobIds, k \in TaskKeys : delayWake(j, k)
  \/ \E j \in JobIds, k \in TaskKeys : floodWake(j, k)
  \/ Tick

SpecLog == InitLog /\ [][NextLog]_vars

\* SpecFaults: the first round of Spec with Sends, connects and sleeps that return
\* and callbacks that run, while the platform answers with any error, connections
\* drop and a driver may throw
ProgressFaults ==
  \/ \E j \in JobIds, k \in TaskKeys : sendReturn(j, k)
  \/ \E j \in JobIds, k \in TaskKeys : connectReturn(j, k)
  \/ \E j \in JobIds, k \in TaskKeys : floodWake(j, k)
  \/ \E j \in JobIds, k \in TaskKeys : delayWake(j, k)
  \/ \E j \in JobIds, k \in TaskKeys : timerFires(j, k)
  \/ \E j \in JobIds : roundComplete(j)

NextFaults ==
  \/ \E j \in JobIds : startPosting(j)
  \/ ProgressFaults
  \/ \E j \in JobIds, k \in TaskKeys : driverThrow(j, k)
  \/ \E s \in SessionIds : connectionLost(s)

SpecFaults == Init /\ [][NextFaults]_vars /\ WF_vars(ProgressFaults)

\* SpecShared: two jobs of the tenant on the clock, round after round, both on the
\* one session s1 and its group g1; a Send succeeds or, once, meets a flood wait
InitShared == Start({"s1"}, {"g1"},
                    [ops |-> 0, faults |-> 1,
                     outcomes |-> {"ok", "flood"}, clock |-> TRUE, rounds |-> TRUE,
                     jobs |-> {"j1", "j2"}, ads |-> {"a1"}])

NextShared ==
  \/ \E j \in JobIds : startPosting(j)
  \/ \E j \in JobIds : roundComplete(j)
  \/ \E j \in JobIds : roundPauseWake(j)
  \/ \E j \in JobIds : nextRound(j)
  \/ \E j \in JobIds, k \in TaskKeys : sendReturn(j, k)
  \/ \E j \in JobIds, k \in TaskKeys : floodWake(j, k)
  \/ Tick

SpecShared == InitShared /\ [][NextShared]_vars

\* SpecStart: start-posting requests for any ad id, one after the other, while
\* connections drop; two sessions (s1 with two groups, s2 with none), a Send
\* succeeds or meets slow mode
InitStart == Start({"s1", "s2"}, {"g1", "g2"},
                   [ops |-> 0, faults |-> MaxFaults,
                    outcomes |-> {"ok", "slowmode"}, clock |-> FALSE, rounds |-> FALSE,
                    jobs |-> {"j1", "j2"}, ads |-> AdIds])

NextStart ==
  \/ \E j \in JobIds : startPosting(j)
  \/ \E j \in JobIds, k \in TaskKeys : sendReturn(j, k)
  \/ \E s \in SessionIds : connectionLost(s)

SpecStart == InitStart /\ [][NextStart]_vars

\* SpecSched: two scans of the scheduler over two ads that carry a schedule, due
\* now or in a minute, with or without a session to post from; the distributions
\* the scans start run on, and the tenant pauses, publishes and archives ads
NoEngine == [ops |-> 0, faults |-> 0, outcomes |-> {"ok"}, clock |-> FALSE,
             rounds |-> FALSE, jobs |-> {}, ads |-> {}]

InitSched ==
  /\ StartEngine({"s1"}, {"g1"}, NoEngine)
  /\ QuietPay
  /\ QuietSync
  /\ adRows \in [{"a1", "a2"} ->
                  [status : {"ACTIVE"}, isScheduled : {TRUE}, scheduledFor : {0, 1},
                   lastScheduledAt : {NONE}, lastError : {""}, sessionId : {"", "s1"}]]
  /\ postRows = <<>>
  /\ scan = [pc |-> "idle", ads |-> <<>>, i |-> 0, runs |-> 0, error |-> ""]
  /\ distribution = <<>>

ScanProgress ==
  \/ publishScheduledAd
  \/ markScheduledAd

NextSched ==
  \/ handleScheduledAds
  \/ ScanProgress
  \/ \E a \in AdIds : adsPause(a)
  \/ \E a \in AdIds : adsPublish(a)
  \/ \E a \in AdIds : adsRemove(a)
  \/ Minute
  \/ \E d \in 1..(2 * MaxScans) : distributionCheck(d)
  \/ \E d \in 1..(2 * MaxScans) : distributionSendReturn(d)
  \/ \E d \in 1..(2 * MaxScans) : distributionFinish(d)

SpecSched == InitSched /\ [][NextSched]_vars /\ WF_vars(ScanProgress)

\* SpecSync: batchAddGroups called again and again, for s1 with any list of up
\* to MaxBatch snapshots, for s2 with one snapshot at most
InitSync ==
  /\ StartEngine({"s1", "s2"}, {}, NoEngine)
  /\ QuietSched
  /\ QuietPay
  /\ QuietSync

NextSync ==
  \E s \in SessionIds :
    \E groups \in SeqsUpTo(GroupSnapshots, IF s = "s1" THEN MaxBatch ELSE 1) :
      batchAddGroups(s, groups)

SpecSync == InitSync /\ [][NextSync]_vars

\* SpecPost: the distribution of one Post over the three groups of its session
\* has been started; Sends succeed or fail, and the tenant pauses, resumes and
\* cancels the Post
InitPost ==
  /\ StartEngine({"s1"}, {"g1", "g2", "g3"}, NoEngine)
  /\ QuietPay
  /\ QuietSync
  /\ adRows = <<>>
  /\ scan = [pc |-> "idle", ads |-> <<>>, i |-> 0, runs |-> 0, error |-> ""]
  /\ postRows = <<[adId |-> "a1", sessionId |-> "s1", status |-> "IN_PROGRESS",
                   completedGroups |-> 0, lastGroupIndex |-> NONE,
                   lastPausedAt |-> NONE]>>
  /\ distribution = <<distributeContent(1, getTargetGroups("s1"))>>

NextPost ==
  \/ \E d \in 1..(MaxResumes + 1) : distributionCheck(d)
  \/ \E d \in 1..(MaxResumes + 1) : distributionSendReturn(d)
  \/ \E d \in 1..(MaxResumes + 1) : distributionWake(d)
  \/ \E d \in 1..(MaxResumes + 1) : distributionFinish(d)
  \/ pausePost(1)
  \/ cancelPost(1)
  \/ resumePost(1)

SpecPost == InitPost /\ [][NextPost]_vars

\* SpecPay: two pending payments, two calls of approve or reject by the admins,
\* and the expiry job whenever it is due
InitPay ==
  /\ StartEngine({}, {}, NoEngine)
  /\ QuietSched
  /\ QuietSync
  /\ payments = [id \in PaymentIds |->
                   [status |-> "PENDING", old |-> FALSE, subscriptions |-> 0]]
  /\ reviews = [r \in ReviewIds |-> NoReview]

NextPay ==
  \/ \E r \in ReviewIds, kind \in {"approve", "reject"}, id \in PaymentIds :
       reviewFind(r, kind, id)
  \/ \E r \in ReviewIds : reviewUpdate(r)
  \/ expirePending
  \/ \E id \in PaymentIds : paymentGrowsOld(id)

SpecPay == InitPay /\ [][NextPay]_vars

\* SpecErrors: the first round of one session with three groups whose Sends
\* succeed, fail with another error or meet a flood wait, one Send after the other
InitErrors == Start({"s1"}, {"g1", "g2", "g3"},
                    [ops |-> 0, faults |-> MaxFaults + 1,
                     outcomes |-> {"ok", "transient", "flood"}, clock |-> FALSE,
                     rounds |-> FALSE, jobs |-> {"j1"}, ads |-> {"a1"}])

NextErrors ==
  \/ \E j \in JobIds : startPosting(j)
  \/ \E j \in JobIds, k \in TaskKeys : sendReturn(j, k)
  \/ \E j \in JobIds, k \in TaskKeys : floodWake(j, k)
  \/ \E j \in JobIds, k \in TaskKeys : delayWake(j, k)
  \/ \E j \in JobIds, k \in TaskKeys : timerFires(j, k)
  \/ \E j \in JobIds : roundComplete(j)

SpecErrors == InitErrors /\ [][NextErrors]_vars

\* SpecThaw: one job on two sessions while the days go by and the daily cleanup
\* runs; a Send succeeds or finds the credential revoked, the tenant may freeze
\* a session
InitThaw == Start({"s1", "s2"}, {"g1", "g4"},
                  [ops |-> 1, faults |-> 1,
                   outcomes |-> {"ok", "dead"}, clock |-> FALSE, rounds |-> FALSE,
                   jobs |-> {"j1"}, ads |-> {"a1"}])

NextThaw ==
  \/ \E j \in JobIds : startPosting(j)
  \/ \E j \in JobIds, k \in TaskKeys : sendReturn(j, k)
  \/ \E s \in SessionIds : markSessionFrozen(s)
  \/ Day
  \/ handleFrozenSessions

SpecThaw == InitThaw /\ [][NextThaw]_vars

\* ------------------------------------------------------------------- claims
\* the Sends in flight of job j on session s
InFlight(j, s) ==
  {k \in DOMAIN tasks[j] :
     tasks[j][k].pc = "sending" /\ GroupSession[tasks[j][k].groups[tasks[j][k].i]] = s}

\* the sessions that take part in job j
Participating(j) == {GroupSession[g] : g \in DOMAIN jobGroups[j]}

\* C1: for every job and every session taking part in it, at most one Send of the
\* job is in flight on that session at any time.
C1_OneSendPerSession ==
  \A j \in JobIds, s \in SessionIds : Cardinality(InFlight(j, s)) <= 1

\* C1's case: a driver has its second Send in flight while the other session's
\* driver has one in flight too
C1_Witness ==
  \E j \in JobIds :
    /\ \E k \in InFlight(j, "s1") : tasks[j][k].i = 2
    /\ InFlight(j, "s2") # {}

\* C5: once stopRequested is set on a job, no step clears it.
C5_StopSticky ==
  [][\A j \in JobIds : job[j].stopRequested => job'[j].stopRequested]_vars

\* C5's case: resumeJob has run on a job whose loop had already ended on the stop
\* request, and the request is still set
C5_Witness ==
  \E j \in JobIds :
    job[j].stopRequested /\ loop[j].pc = "done" /\ job[j].status = "running"

\* C7: when stopJob comes before any group was posted, the job ends with
\* 0 <= postedGroups <= min(totalGroups, number of participating sessions): only
\* the Sends in flight at the stop, one per session, can still succeed.
C7_EarlyStopBound ==
  \A j \in JobIds :
    stoppedAtZero[j] =>
      /\ job[j].postedGroups >= 0
      /\ job[j].postedGroups <= Min2(job[j].totalGroups, Cardinality(Participating(j)))

\* C7's case: stopped right after the start, the loop has ended and the Send in
\* flight of each of the two sessions was counted
C7_Witness ==
  \E j \in JobIds :
    /\ stoppedAtZero[j]
    /\ loop[j].pc = "done"
    /\ job[j].postedGroups = Cardinality(Participating(j))
    /\ job[j].postedGroups < job[j].totalGroups

\* C8: rounds are strictly sequential: a driver is only ever running for the round
\* the loop is in, so round N+1 has no driver until every driver of round N has
\* returned or thrown.
C8_RoundsSequential ==
  \A j \in JobIds : \A k \in DOMAIN tasks[j] :
    Live(tasks[j][k]) =>
      /\ loop[j].pc = "inRound"
      /\ tasks[j][k].round = job[j].roundsCompleted + 1

\* C8's case: the second round is under way with both drivers sending, after a
\* first round that counted fewer groups than the job has because a driver threw
C8_Witness ==
  \E j \in JobIds :
    /\ job[j].roundsCompleted = 1
    /\ ~job[j].stopRequested
    /\ job[j].postedGroups + job[j].failedGroups + job[j].skippedGroups < job[j].totalGroups
    /\ \A s \in Participating(j) : InFlight(j, s) # {}

\* C2: a Send is issued on a session only if, at that moment, the session is
\* Active, not frozen, has a credential and has a connected client; also after
\* the tenant disconnected, deleted or froze the session while the job runs.
C2_SendOnlyOnUsable ==
  \A j \in JobIds : \A k \in DOMAIN tasks[j] :
    tasks[j][k].pc = "sending" =>
      /\ tasks[j][k].at.status = "ACTIVE"
      /\ ~tasks[j][k].at.isFrozen
      /\ tasks[j][k].at.sessionString
      /\ tasks[j][k].at.connected

\* C3: after stopJob has returned no driver issues a new Send.
C3_NoSendAfterStop ==
  \A j \in JobIds : \A k \in DOMAIN tasks[j] :
    tasks[j][k].pc = "sending" => ~tasks[j][k].at.stop

\* C6: the loop has ended at most maxGroupDelay + 2 s after stopJob, whatever the
\* drivers are doing.
C6_StopLatency ==
  \A j \in JobIds : sinceStop[j] > STOP_LATENCY => loop[j].pc = "done"

\* C9: within a driver two consecutive Sends are at least minGroupDelay apart: a
\* Send is issued no sooner than minGroupDelay after the driver's previous Send
\* returned.
C9_SendsSpaced ==
  \A j \in JobIds : \A k \in DOMAIN tasks[j] :
    (tasks[j][k].pc = "sending" /\ tasks[j][k].at.gap # NONE) =>
      tasks[j][k].at.gap >= MIN_GROUP_DELAY_MS

\* C9's case: a driver's third Send is in flight, issued after two earlier ones
\* and the long pause
C9_Witness ==
  \E j \in JobIds : \E k \in DOMAIN tasks[j] :
    /\ tasks[j][k].pc = "sending"
    /\ tasks[j][k].at.gap # NONE
    /\ tasks[j][k].messageCount = LONG_PAUSE_INTERVAL

\* C10 as written: no Send is issued on a session whose cooldownUntil lies in the
\* future, and after a flood wait above 60 s on the first group of a round the
\* driver issues no further Send in that round.
C10_SkipsWhileCooling ==
  \A j \in JobIds : \A k \in DOMAIN tasks[j] :
    /\ tasks[j][k].pc = "sending" => tasks[j][k].at.cooldown <= 0
    /\ tasks[j][k].floodFirst => tasks[j][k].pc \notin {"sending", "connecting"}

\* C10 amended: the same, for a driver that has not sat in the pause-wait loop
\* since the flood wait was reported.
C10_SkipsUnlessPaused ==
  \A j \in JobIds : \A k \in DOMAIN tasks[j] :
    /\ tasks[j][k].pc = "sending" => tasks[j][k].at.cooldown <= 0
    /\ (tasks[j][k].floodFirst /\ ~tasks[j][k].waited) =>
         tasks[j][k].pc \notin {"sending", "connecting"}

\* C10's case: the first group met a flood wait above 60 s, the job was not paused,
\* and the driver's remaining groups were skipped with "Session cooldown"
C10_Witness ==
  \E j \in JobIds :
    /\ Len(job[j].logs) = 3
    /\ job[j].logs[1].status = "failed"
    /\ job[j].logs[2].reason = "Session cooldown"
    /\ job[j].logs[3].reason = "Session cooldown"
    /\ sessionStates["s1"].cooldownUntil > 0

\* C11: a session whose floodCount has reached maxFloodPerSession has
\* cooldownUntil >= tLastFlood + floodFreeze, whatever wait the flood signals
\* reported. In distances to now: the ticks that remain of the cooldown plus the
\* age of the last flood are at least floodFreeze, until the freeze has run out.
C11_FloodFreeze ==
  \A s \in SessionIds :
    LET st == sessionStates[s] IN
    (st.floodCount >= MAX_FLOOD_PER_SESSION /\ st.lastFloodAt < FLOOD_FREEZE_MS) =>
      /\ st.cooldownUntil # NONE
      /\ st.cooldownUntil + st.lastFloodAt >= FLOOD_FREEZE_MS

\* the sessions whose key the platform has revoked
Dead == {s \in SessionIds : sessions[s].status = "BANNED"}

\* the groups of job j that session s joined
GroupsOf(j, s) == {g \in DOMAIN jobGroups[j] : GroupSession[g] = s}

\* C12: after a Send on session A came back with the key revoked, every further
\* group of A, in this round and in later rounds, is skipped for the session's
\* cooldown and neither a Send nor a connect is started on A; the other sessions
\* go on: as long as such a session stays below its own message limit, every one
\* of its group turns is a Send that succeeds.
C12_DeadSessionSkipped ==
  \A j \in JobIds :
    /\ \A a \in Dead :
         /\ InFlight(j, a) = {}
         /\ \A k \in DOMAIN tasks[j] :
              tasks[j][k].key = a => tasks[j][k].pc \notin {"sending", "connecting"}
         /\ \A m, n \in DOMAIN job[j].logs :
              (/\ m < n
               /\ job[j].logs[m].sessionId = a
               /\ job[j].logs[m].reason = "Session o'lgan"
               /\ job[j].logs[n].sessionId = a) =>
                 /\ job[j].logs[n].status = "skipped"
                 /\ job[j].logs[n].reason = "Session cooldown"
    /\ \A b \in SessionIds \ Dead :
         (Dead # {} /\
          (job[j].roundsCompleted + 1) * Cardinality(GroupsOf(j, b)) < SESSION_MESSAGE_LIMIT) =>
           /\ \A n \in DOMAIN job[j].logs :
                job[j].logs[n].sessionId = b => job[j].logs[n].status = "success"
           /\ \A k \in DOMAIN tasks[j] :
                (Live(tasks[j][k]) /\ tasks[j][k].key = b) =>
                  tasks[j][k].messageCount >= tasks[j][k].i - 1

\* C12's case: s1's key was revoked at its first group; its second group and both
\* its groups of the second round were skipped, while s2 sent in both rounds
C12_Witness ==
  \E j \in JobIds :
    /\ Dead = {"s1"}
    /\ job[j].roundsCompleted = 2
    /\ job[j].failedGroups = 1
    /\ job[j].skippedGroups = 3
    /\ job[j].postedGroups = 2

\* C13: once a Send to a group came back write-forbidden the group is marked
\* restricted and skipped, and no later Send targets it while it stays marked.
C13_RestrictedNeverSent ==
  \A j \in JobIds : \A k \in DOMAIN tasks[j] :
    tasks[j][k].pc = "sending" =>
      ~groupRows[tasks[j][k].groups[tasks[j][k].i]].isSkipped

C15_NoSendWhilePaused ==
  \A j \in JobIds : \A k \in DOMAIN tasks[j] :
    tasks[j][k].pc = "sending" => ~(tasks[j][k].at.pause /\ ~tasks[j][k].at.stop)

\* C16: for every completed round and every group of the job, the job's records
\* hold an entry (sent, failed or skipped) for that group in that round, unless stop
\* was requested.
C16_EveryGroupRecorded ==
  \A j \in JobIds :
    ~job[j].stopRequested =>
      \A r \in 1..job[j].roundsCompleted : \A g \in DOMAIN jobGroups[j] :
        \E n \in DOMAIN job[j].logs :
          job[j].logs[n].groupId = g /\ job[j].logs[n].timestamp = r

\* the delivery records of job j that are not skips
NonSkipped(j) == {n \in DOMAIN job[j].logs : job[j].logs[n].status # "skipped"}

\* C17: postedGroups + failedGroups is the number of the job's records that are
\* not skips: a turn recorded as skipped adds to neither counter.
C17_AttemptsMatchRecords ==
  \A j \in JobIds :
    job[j].postedGroups + job[j].failedGroups = Cardinality(NonSkipped(j))

\* C18: between two driver steps a job's log never holds more entries than the
\* trim threshold.
C18_LogBounded ==
  \A j \in JobIds : Len(job[j].logs) <= LOG_TRIM_ABOVE

\* C19: at most one job per ad of the tenant is running at any time.
C19_OneRunningJobPerAd ==
  \A j, h \in JobIds :
    (j # h /\ job[j].status = "running" /\ job[h].status = "running") =>
      job[j].adId # job[h].adId

\* C20: a step removes a job from the registry only when the job's status is
\* stopped or completed.
C20_CleanupOnlyWhenEnded ==
  [][\A j \in JobIds :
       (j \in activeJobs /\ j \notin activeJobs') =>
         job[j].status \in {"stopped", "completed"}]_vars

\* the tenant's sessions that are Active, not frozen and hold a credential
Eligible ==
  {s \in SessionIds :
     sessions[s].status = "ACTIVE" /\ ~sessions[s].isFrozen /\ sessions[s].sessionString}

\* the messages of the two error kinds of a start-posting request
NoUsableSession == {"Faol session topilmadi", "Hech bir session ulanmadi"}
NoDeliverableGroup == {"guruhlar topilmadi"}

\* C21: a start-posting request for an ad that exists fails with NoUsableSession
\* when none of the tenant's eligible sessions is connected after the connect
\* attempts, and with NoDeliverableGroup when the connected ones contribute no
\* group; a request that fails in either way adds no job to the registry, creates
\* no job and starts no round loop and no driver.
C21_StartFailsCleanly ==
  [][(startResult'.calls # startResult.calls /\ startResult'.error # "E'lon topilmadi") =>
       LET connected == {s \in Eligible : s \in clients'}
           contributed == {g \in GroupIds : /\ GroupSession[g] \in connected
                                            /\ groupRows[g].isActive
                                            /\ ~groupRows[g].isSkipped}
       IN
       /\ connected = {} => startResult'.error \in NoUsableSession
       /\ (connected # {} /\ contributed = {}) => startResult'.error \in NoDeliverableGroup
       /\ startResult'.error \in NoUsableSession \cup NoDeliverableGroup =>
            /\ activeJobs' = activeJobs
            /\ job' = job
            /\ jobGroups' = jobGroups
            /\ loop' = loop
            /\ tasks' = tasks]_vars

\* C21's case: while the first job runs, s1's connection dropped and did not come
\* back; the second request found only s2, which has no group, and left no job
C21_Witness ==
  /\ startResult.error \in NoDeliverableGroup
  /\ clients = {"s2"}
  /\ activeJobs = {"j1"}
  /\ job["j2"].status = "none"
  /\ loop["j2"].pc = "none"

\* C22: a job exists only for an ad that exists, belongs to the tenant and has
\* non-empty content: a request for another tenant's ad or for an ad with empty
\* content creates no job.
C22_JobOnlyForOwnAd ==
  \A j \in JobIds :
    job[j].status # "none" =>
      /\ job[j].adId \in DOMAIN Ads
      /\ Ads[job[j].adId].userId = UserId
      /\ Ads[job[j].adId].content # ""

\* C23: the group list of a job made by a start-posting request holds exactly the
\* deliverable groups of the tenant's usable sessions: g is in it iff g is active,
\* not skipped, not under a standing restriction, and its session is Active, not
\* frozen, holds a credential and is connected.
C23_GroupListIsDeliverable ==
  [][\A j \in JobIds :
       (job[j].status = "none" /\ job'[j].status # "none") =>
         DOMAIN jobGroups'[j] =
           {g \in GroupIds :
              /\ groupRows[g].isActive
              /\ ~groupRows[g].isSkipped
              /\ \/ ~groupRows[g].hasRestrictions
                 \/ groupRows[g].restrictionUntil = 0
              /\ GroupSession[g] \in Eligible
              /\ GroupSession[g] \in clients'}]_vars

\* the drivers, of any job, that are in the middle of a turn on session s: they
\* have read s's rate-state entry at the cooldown check and will update it with
\* the outcome of the connect or Send they wait for
Touching(s) ==
  {x \in JobIds \X TaskKeys :
     /\ x[2] \in DOMAIN tasks[x[1]]
     /\ tasks[x[1]][x[2]].key = s
     /\ tasks[x[1]][x[2]].pc \in {"sending", "connecting"}}

\* C24: at any instant, counted across all running jobs, at most one driver is
\* reading or updating the rate-state entry of a given session, also when two
\* jobs whose group lists share a session run at the same time.
C24_OneDriverPerSessionEntry ==
  \A s \in SessionIds : Cardinality(Touching(s)) <= 1

\* C25: inside a driver no error aborts the round. Whatever a Send or a connect
\* attempt comes back with, the turn ends with a record for its group and the
\* driver goes on: it sleeps before its next group, is at its next group, or has
\* returned after its last one (a short flood wait is slept first, a connect that
\* succeeded is followed by the Send). A driver that throws keeps neither the
\* other drivers nor the round from finishing.
C25_NoErrorAbortsRound ==
  /\ [][\A j \in JobIds : \A k \in DOMAIN tasks[j] :
          LET t == tasks[j][k]
              u == tasks'[j][k]
              g == t.groups[t.i]
          IN
          (t.pc \in {"sending", "connecting", "floodWait"} /\ u.pc \notin {t.pc, "rejected"}) =>
            \/ t.pc = "sending" /\ u.pc = "floodWait" /\ u.i = t.i
            \/ t.pc = "connecting" /\ u.pc = "sending" /\ u.i = t.i
            \/ /\ job'[j].logs # <<>>
               /\ job'[j].logs[Len(job'[j].logs)].groupId = g
               /\ job'[j].logs[Len(job'[j].logs)].status \in {"success", "failed", "skipped"}
               /\ \/ u.pc = "delay" /\ u.i = t.i /\ t.i < Len(t.groups)
                  \/ u.pc = "done" /\ (t.i = Len(t.groups) \/ job[j].stopRequested)]_vars
  /\ \A j \in JobIds : loop[j].pc = "inRound" ~> loop[j].pc = "roundPause"

\* C25's case: a round has completed in which one driver threw at its first
\* group, so that a group was never counted, and the other driver recorded a
\* failure and went on to send
C25_Witness ==
  \E j \in JobIds :
    /\ loop[j].pc = "roundPause"
    /\ job[j].roundsCompleted = 1
    /\ job[j].postedGroups + job[j].failedGroups + job[j].skippedGroups < job[j].totalGroups
    /\ job[j].failedGroups = 1
    /\ job[j].postedGroups = 1

\* C26 as written: whenever a step arms a session's cooldown (cooldownUntil is set,
\* or moved further into the future), the session's messagesSent is 0 right after
\* the step.
C26_ArmingResetsCount ==
  [][\A s \in SessionIds :
       LET before == sessionStates[s].cooldownUntil
           after == sessionStates'[s].cooldownUntil
       IN
       (after # NONE /\ after > 0 /\ (before = NONE \/ after > before)) =>
         sessionStates'[s].messagesSent = 0]_vars

\* C26 amended: a step that arms a session's cooldown either zeroes messagesSent
\* (the message limit was reached) or leaves it as it was (any other outcome), and
\* the step that clears a cooldown that has run out zeroes it.
C26_LimitOrExpiryResetsCount ==
  [][\A s \in SessionIds :
       LET before == sessionStates[s].cooldownUntil
           after == sessionStates'[s].cooldownUntil
       IN
       /\ (after # NONE /\ after > 0 /\ (before = NONE \/ after > before)) =>
            sessionStates'[s].messagesSent \in {0, sessionStates[s].messagesSent}
       /\ (before # NONE /\ after = NONE) => sessionStates'[s].messagesSent = 0]_vars

\* C26's case: s1 sent once, then met a flood wait above 60 s that armed its
\* cooldown with messagesSent still 1; the cooldown ran out while the job was
\* paused, and the turn of the third group cleared it, zeroed the count and sent
C26_Witness ==
  \E j \in JobIds :
    /\ Len(job[j].logs) = 2
    /\ job[j].logs[1].status = "success"
    /\ job[j].logs[2].reason = "FLOOD_WAIT"
    /\ sessionStates["s1"].floodCount = 1
    /\ sessionStates["s1"].cooldownUntil = NONE
    /\ sessionStates["s1"].messagesSent = 0
    /\ \E k \in InFlight(j, "s1") : tasks[j][k].i = 3 /\ tasks[j][k].waited

\* C27: a slow-mode answer for group g leaves the rate state of the sending
\* session (messagesSent, floodCount, consecutiveErrors, cooldownUntil) as it was;
\* the step only sets hasRestrictions and skipReason on g and records the turn as
\* skipped.
C27_SlowModeKeepsRateState ==
  [][\A j \in JobIds : \A k \in DOMAIN tasks[j] :
       LET t == tasks[j][k]
           g == t.groups[t.i]
           logs == job'[j].logs
       IN
       (/\ t.pc = "sending"
        /\ tasks'[j][k].pc # "sending"
        /\ logs # job[j].logs
        /\ logs[Len(logs)].groupId = g
        /\ logs[Len(logs)].reason = "SLOWMODE") =>
          /\ sessionStates'[GroupSession[g]] = sessionStates[GroupSession[g]]
          /\ groupRows' = [groupRows EXCEPT ![g].hasRestrictions = TRUE,
                                            ![g].skipReason = "Slowmode"]
          /\ logs[Len(logs)].status = "skipped"]_vars

\* C27's case: s1 sent to its first group and met slow mode at its second; the
\* group is marked and s1's rate state still shows the one message and no error
C27_Witness ==
  \E j \in JobIds :
    /\ Len(job[j].logs) = 2
    /\ job[j].logs[1].sessionId = "s1" /\ job[j].logs[1].status = "success"
    /\ job[j].logs[2].sessionId = "s1" /\ job[j].logs[2].reason = "SLOWMODE"
    /\ groupRows[job[j].logs[2].groupId].hasRestrictions
    /\ ~groupRows[job[j].logs[2].groupId].isSkipped
    /\ sessionStates["s1"] = [getSessionState EXCEPT !.messagesSent = 1,
                                                     !.armedSinceSent = "no"]

\* C28: a session that has sent, and whose cooldown was not armed since its last
\* Sent, has messagesSent >= 1: the count is not zeroed after a success unless a
\* cooldown was armed after it.
C28_CountKeptUntilArmed ==
  \A s \in SessionIds :
    sessionStates[s].armedSinceSent = "no" => sessionStates[s].messagesSent >= 1

\* C29: every sleep the engine draws lies in its closed interval: a driver's sleep
\* between two groups in [minGroupDelay, maxGroupDelay] or, as a long pause, in
\* [longPauseMin, longPauseMax], the pause between two rounds in [roundPause - 3
\* min, roundPause + 3 min]; a long pause is drawn only when the driver's count of
\* successful sends is a positive multiple of longPauseInterval.
C29_SleepsInInterval ==
  [][\A j \in JobIds :
       /\ \A k \in DOMAIN tasks[j] \cap DOMAIN tasks'[j] :
            LET u == tasks'[j][k] IN
            (u.pc = "delay" /\ tasks[j][k].pc # "delay") =>
              /\ \/ u.timer \in MIN_GROUP_DELAY_MS..MAX_GROUP_DELAY_MS
                 \/ u.timer \in LONG_PAUSE_MIN_MS..LONG_PAUSE_MAX_MS
              /\ u.timer > MAX_GROUP_DELAY_MS =>
                   u.messageCount > 0 /\ u.messageCount % LONG_PAUSE_INTERVAL = 0
       /\ (loop'[j].pc = "roundPause" /\ loop[j].pc # "roundPause") =>
            loop'[j].pauseLeft \in
              (ROUND_PAUSE_MS - ROUND_JITTER_MS)..(ROUND_PAUSE_MS + ROUND_JITTER_MS)]_vars

\* C29's case: after its second successful send a driver sleeps the longest long
\* pause
C29_Witness ==
  \E j \in JobIds : \E k \in DOMAIN tasks[j] :
    /\ tasks[j][k].pc = "delay"
    /\ tasks[j][k].timer = LONG_PAUSE_MAX_MS
    /\ tasks[j][k].messageCount = LONG_PAUSE_INTERVAL

\* C30: the daily cleanup of frozen sessions never touches a session whose
\* status is Banned: a session frozen because its credential was revoked keeps
\* isFrozen = true after any number of cleanup runs.
C30_ThawSparesBanned ==
  [][\A s \in SessionIds :
       (sessions[s].status = "BANNED" /\ sessions[s].isFrozen) =>
         sessions'[s].isFrozen]_vars

\* C33: stopped is an absorbing job status: once a job's status is stopped, no
\* later pauseJob, resumeJob or stopJob changes it, so a job whose round loop has
\* ended is never reported as running or paused.
C33_StoppedAbsorbing ==
  [][\A j \in JobIds :
       job[j].status = "stopped" => job'[j].status = "stopped"]_vars

\* C34: after every recorded send outcome on a session, either its
\* consecutiveErrors is below maxConsecutiveErrors or a cooldown is armed for it:
\* failures of any kind never accumulate to the threshold while the session
\* remains free to send.
C34_ErrorsBelowThresholdOrCooling ==
  [][\A s \in SessionIds :
       sessionStates'[s].consecutiveErrors # sessionStates[s].consecutiveErrors =>
         \/ sessionStates'[s].consecutiveErrors < MAX_CONSECUTIVE_ERRORS
         \/ isSessionCoolingDown(sessionStates'[s])]_vars

\* the group turns job j has counted
Turns(jb) == jb.postedGroups + jb.failedGroups + jb.skippedGroups

\* C35: postedGroups + failedGroups + skippedGroups counts the group turns the
\* job's drivers have finished: every step adds to the three counters together
\* exactly as many as it appends log entries (one counter and one entry per
\* finished turn; only a trim of a log above the threshold takes entries away), no
\* counter ever decreases, and within one round each group gets at most one turn.
C35_TurnsCounted ==
  /\ [][\A j \in JobIds :
          LET d == Turns(job'[j]) - Turns(job[j])
              n == Len(job[j].logs) IN
          /\ job'[j].postedGroups >= job[j].postedGroups
          /\ job'[j].failedGroups >= job[j].failedGroups
          /\ job'[j].skippedGroups >= job[j].skippedGroups
          /\ \/ /\ Len(job'[j].logs) = n + d
                /\ SubSeq(job'[j].logs, 1, n) = job[j].logs
             \/ /\ d > 0
                /\ n + d > LOG_TRIM_ABOVE
                /\ Len(job'[j].logs) >= LOG_KEEP
                /\ Len(job'[j].logs) < n + d]_vars
  /\ [](\A j \in JobIds : \A m, n \in DOMAIN job[j].logs :
          (job[j].logs[m].groupId = job[j].logs[n].groupId
             /\ job[j].logs[m].timestamp = job[j].logs[n].timestamp) => m = n)

\* C35's case: in its second round the job has counted more turns than its
\* trimmed log still holds, skips among them
C35_Witness ==
  \E j \in JobIds :
    /\ Turns(job[j]) > LOG_TRIM_ABOVE
    /\ Len(job[j].logs) < Turns(job[j])
    /\ job[j].skippedGroups > 0
    /\ job[j].postedGroups > 0
    /\ job[j].failedGroups > 0

\* C36: across all jobs, two successful sends to the same group are never less
\* than groupCooldown apart, also when two jobs whose lists both hold the group
\* run at the same time: a Send that returns with success finds the group's last
\* successful send, by whichever job, at least groupCooldown back.
C36_GroupSendsSpaced ==
  [][\A j \in JobIds : \A k \in DOMAIN tasks[j] :
       (/\ tasks[j][k].pc = "sending"
        /\ tasks'[j][k] # tasks[j][k]
        /\ job'[j].postedGroups = job[j].postedGroups + 1) =>
         LET g == tasks[j][k].groups[tasks[j][k].i] IN
         \/ groupRows[g].lastPostAt = NONE
         \/ groupRows[g].lastPostAt >= GROUP_COOLDOWN_MS]_vars

PostsOf(a) == {p \in DOMAIN postRows : postRows[p].adId = a}

\* C37: for an ad with a given scheduledFor the periodic scan creates a Post and
\* starts distribution at most once: scans that run after the ad was published, or
\* after its start failed, do not publish it again (no ad is rescheduled here).
C37_PublishedOnce ==
  \A a \in DOMAIN adRows : Cardinality(PostsOf(a)) <= 1

\* C32: batchAddGroups is idempotent in platformId: a call that repeats the call
\* before it (same session, same list of snapshots) leaves the Group rows as they
\* are, and no two rows ever share (sessionId, platformId).
C32_BatchAddIdempotent ==
  /\ [][(/\ lastBatch'.calls # lastBatch.calls
          /\ lastBatch.sessionId = lastBatch'.sessionId
          /\ lastBatch.groups = lastBatch'.groups) =>
          groupTable'.rows = groupTable.rows]_vars
  /\ [](\A m, n \in DOMAIN groupTable.rows :
          UniqueKey(groupTable.rows[m]) = UniqueKey(groupTable.rows[n]) => m = n)

\* C32's case: the call that names p1 twice, with two titles, has been made twice
\* for s1, which had p2 already: s1 has one row for each and p1 kept the first title
C32_Witness ==
  /\ lastBatch.calls = 1
  /\ lastBatch.sessionId = "s1"
  /\ lastBatch.groups = <<[telegramId |-> "p1", title |-> "t1"],
                          [telegramId |-> "p1", title |-> "t2"]>>
  /\ groupTable.rows = <<[sessionId |-> "s1", telegramId |-> "p2", title |-> "t2"],
                         [sessionId |-> "s1", telegramId |-> "p1", title |-> "t1"]>>
  /\ groupTable.totalGroups["s1"] = 2

\* C38: a Post that pausePost or cancelPost moved to PAUSED or CANCELLED keeps that
\* status until resumePost is called (or the tenant cancels it): the distribution
\* loop running for the Post issues no further Send after reading the changed
\* status and never overwrites it with COMPLETED.
C38_PausedOrCancelledKept ==
  [][/\ \A p \in DOMAIN postRows :
          (/\ \/ postRows[p].status = "CANCELLED"
              \/ postRows[p].status = "PAUSED" /\ postRows[p].lastPausedAt # NONE
           /\ postRows'[p].status # postRows[p].status) =>
            \/ postRows'[p].status = "CANCELLED"
            \/ /\ postRows[p].status = "PAUSED"
               /\ postRows'[p].status = "IN_PROGRESS"
               /\ Len(distribution') = Len(distribution) + 1
     /\ \A d \in DOMAIN distribution :
          (distribution[d].pc = "check" /\ distribution'[d].pc = "sending") =>
            postRows[distribution[d].post].status \notin {"PAUSED", "CANCELLED"}]_vars

\* C39: a payment's status leaves Pending at most once: after it has become
\* Approved, Rejected or Expired, no interleaving of approve, reject and the
\* expiry loop changes it again; a payment the loop expired is never Approved.
C39_PaymentSettledOnce ==
  [][\A id \in PaymentIds :
       payments[id].status # "PENDING" => payments'[id].status = payments[id].status]_vars

\* C4: after stopJob on a registered job, provided every Send and every sleep
\* returns, the loop ends and the job's status becomes stopped.
C4_StopTerminates ==
  \A j \in JobIds :
    (job[j].stopRequested /\ loop[j].pc # "done")
      ~> (loop[j].pc = "done" /\ job[j].status = "stopped")

\* C4's case: a job stopped while it was paused has ended
C4_Witness ==
  \E j \in JobIds :
    /\ job[j].stopRequested
    /\ job[j].pauseRequested
    /\ loop[j].pc = "done"
    /\ job[j].status = "stopped"

====
